---- MODULE Spec2Model ----
(***************************************************************************)
(* The agent action-resolution engine of the PSI backend: the two request  *)
(* handlers that ask an orchestrating model for a decision, decode it,     *)
(* dispatch it to a tool or to a delegate model and persist the messages   *)
(* of the request.                                                         *)
(*                                                                         *)
(*   chat()            src/backend/app.py       (POST /api/chat)           *)
(*   api_chat_route()  src/app_chat_route.py    (blueprint /api/chat)      *)
(*                                                                         *)
(* One request is followed from its arrival to the response (or to the     *)
(* exception that leaves the handler).  Every effect of the handler (a     *)
(* row added to the message store, a call of a model backend, a call of a  *)
(* tool function) is appended to log in the order the code performs it.  *)
(* The replies of the model backend, the state of the file system and the  *)
(* outcome of the tool functions the route imports are inputs.             *)
(***************************************************************************)
EXTENDS Integers, Sequences, FiniteSets, TLC

VARIABLES
    handler,    \* "chat" (app.py) or "route" (app_chat_route.py)
    pc,         \* "receive", "decide", "dispatch", "respond", "done"
    payload,    \* request.get_json()
    base,       \* the number of rows stored when the request arrived
    log,        \* effects so far: the stored rows first, then this request's
    recent,     \* recent_messages / condensed history read by the handler
    raw,        \* orchestrator_response_raw
    loc,        \* the handler's locals that reach the response
    response,   \* what the handler returned
    outcome     \* "pending", "returned", "raised"

vars == <<handler, pc, payload, base, log, recent, raw, loc, response, outcome>>

----------------------------------------------------------------------------
(* Python values.  A string is a sequence of tokens; a token is a piece of *)
(* plain text [c |-> ...] or the text of one JSON value [j |-> value].     *)

None == [t |-> "none"]
Unbound == [t |-> "unbound"]
Num == [t |-> "num"]
Bool(b) == [t |-> "bool", b |-> b]
Str(s) == [t |-> "str", s |-> s]
Dict(d) == [t |-> "dict", d |-> d]
EmptyDict == Dict([k \in {} |-> None])

L(s) == <<[c |-> s]>>
J(v) == <<[j |-> v]>>
S(s) == Str(L(s))
EmptyStr == Str(<<>>)

IsStr(v) == v.t = "str"
IsDict(v) == v.t = "dict"

\* bool(v) of Python
Truthy(v) ==
    CASE v.t = "none" -> FALSE
      [] v.t = "str" -> v.s # <<>>
      [] v.t = "dict" -> DOMAIN v.d # {}
      [] v.t = "bool" -> v.b
      [] OTHER -> TRUE

\* str(v), as an f-string formats it
Fmt(v) ==
    CASE v.t = "str" -> v.s
      [] v.t = "none" -> L("None")
      [] v.t = "num" -> L("5")
      [] v.t = "bool" -> IF v.b THEN L("True") ELSE L("False")
      [] OTHER -> L("{...}")

\* dict.get(k) and dict.get(k, default)
Get(d, k) == IF k \in DOMAIN d THEN d[k] ELSE None
GetDefault(d, k, default) == IF k \in DOMAIN d THEN d[k] ELSE default

\* s[:n]
Take(s, n) == IF Len(s) <= n THEN s ELSE SubSeq(s, 1, n)
\* s[-n:]
LastN(s, n) == IF Len(s) <= n THEN s ELSE SubSeq(s, Len(s) - n + 1, Len(s))

IsSpace(tok) == tok = [c |-> " "]

RECURSIVE LStrip(_)
LStrip(s) == IF s # <<>> /\ IsSpace(Head(s)) THEN LStrip(Tail(s)) ELSE s

RECURSIVE RStrip(_)
RStrip(s) ==
    IF s # <<>> /\ IsSpace(s[Len(s)]) THEN RStrip(SubSeq(s, 1, Len(s) - 1)) ELSE s

\* str.strip()
Strip(s) == RStrip(LStrip(s))

\* json.loads(text): the text must be exactly one JSON value; empty text,
\* plain text, and a JSON value with text before or after it do not parse.
json_loads(text) ==
    IF Len(text) = 1 /\ "j" \in DOMAIN text[1]
    THEN [ok |-> TRUE, v |-> text[1].j]
    ELSE [ok |-> FALSE, v |-> None]

----------------------------------------------------------------------------
(* Effects.                                                                *)

DbAdd(role, text, action, chat) ==
    [e |-> "db", role |-> role, text |-> text, action |-> action, chat |-> chat]
LlmCall(site, model, prompt, messages, result, returned) ==
    [e |-> "llm", site |-> site, model |-> model, prompt |-> prompt,
     messages |-> messages, result |-> result, returned |-> returned]
ToolCall(name, args, result, content) ==
    [e |-> "tool", name |-> name, args |-> args, result |-> result, content |-> content]

IsDb(ev) == ev.e = "db"
IsLlm(ev) == ev.e = "llm"
IsTool(ev) == ev.e = "tool"

\* the message store: the rows added so far, oldest first
Rows(lg) == SelectSeq(lg, IsDb)

----------------------------------------------------------------------------
(* src/backend/app.py: the tools.                                          *)

DisplayLimit == 500
ContextLimit == 5
HistoryLimit == 5

AVAILABLE_TOOLS == {"read_file", "write_file", "document_analysis", "internet_search"}

\* the keyword parameters of the function AVAILABLE_TOOLS maps each name to
ToolParams(name) ==
    CASE name = "read_file" -> {"filename"}
      [] name = "write_file" -> {"filename", "content"}
      [] name = "document_analysis" -> {"text_content"}
      [] name = "internet_search" -> {"query"}

ToolOut(d) == [raised |-> FALSE, out |-> Dict(d)]
ToolRaise == [raised |-> TRUE, out |-> None]

\* _resolve_filepath gives an error for an empty filename; the filenames of
\* this model are plain names, which resolve to a path inside the workspace.
resolve_error(filename) ==
    IF ~Truthy(filename) THEN S("Filename cannot be empty.") ELSE None

read_file_tool(filename, fs) ==
    IF resolve_error(filename) # None
    THEN ToolOut([tool_name |-> S("read_file"), success |-> Bool(FALSE),
                  error |-> resolve_error(filename)])
    ELSE IF ~IsStr(filename) THEN ToolRaise
    ELSE CASE fs.k = "missing" ->
                ToolOut([tool_name |-> S("read_file"), success |-> Bool(FALSE),
                         error |-> Str(L("File not found: ") \o filename.s)])
           [] fs.k = "notfile" ->
                ToolOut([tool_name |-> S("read_file"), success |-> Bool(FALSE),
                         error |-> Str(L("Path is not a file: ") \o filename.s)])
           [] fs.k = "ioerror" ->
                ToolOut([tool_name |-> S("read_file"), success |-> Bool(FALSE),
                         filename |-> filename, error |-> S("[Errno 13] Permission denied")])
           [] fs.k = "content" ->
                ToolOut([tool_name |-> S("read_file"), success |-> Bool(TRUE),
                         filename |-> filename, content |-> Str(fs.c)])

write_file_tool(filename, content, fs) ==
    IF resolve_error(filename) # None
    THEN ToolOut([tool_name |-> S("write_file"), success |-> Bool(FALSE),
                  error |-> resolve_error(filename)])
    ELSE IF ~IsStr(filename) THEN ToolRaise
    ELSE IF ~IsStr(content)
    THEN ToolOut([tool_name |-> S("write_file"), success |-> Bool(FALSE),
                  filename |-> filename, error |-> S("write() argument must be str")])
    ELSE IF fs.k = "ioerror"
    THEN ToolOut([tool_name |-> S("write_file"), success |-> Bool(FALSE),
                  filename |-> filename, error |-> S("[Errno 13] Permission denied")])
    ELSE ToolOut([tool_name |-> S("write_file"), success |-> Bool(TRUE),
                  filename |-> filename,
                  message |-> Str(L("Content written to ") \o filename.s)])

document_processing_tool(text_content) ==
    IF ~IsStr(text_content) THEN ToolRaise
    ELSE ToolOut([tool_name |-> S("document_processing"), success |-> Bool(TRUE),
                  result |-> S("Text analyzed: <n> words, <m> characters.")])

internet_search_tool(query) ==
    IF ~IsStr(query) THEN ToolRaise
    ELSE ToolOut([tool_name |-> S("internet_search"), success |-> Bool(TRUE),
                  query |-> query,
                  results |-> Str(L("Simulated Search Results for '") \o query.s \o L("'"))])

\* tool_func(**tool_args): binding the keywords fails unless they are
\* exactly the function's parameters
tool_func(name, tool_args, fs) ==
    IF ~IsDict(tool_args) THEN ToolRaise
    ELSE IF DOMAIN tool_args.d # ToolParams(name) THEN ToolRaise
    ELSE CASE name = "read_file" -> read_file_tool(tool_args.d["filename"], fs)
           [] name = "write_file" ->
                write_file_tool(tool_args.d["filename"], tool_args.d["content"], fs)
           [] name = "document_analysis" ->
                document_processing_tool(tool_args.d["text_content"])
           [] name = "internet_search" -> internet_search_tool(tool_args.d["query"])

\* the parameters in the order the function declares them
ToolParamSeq(name) ==
    CASE name = "read_file" -> <<"filename">>
      [] name = "write_file" -> <<"filename", "content">>
      [] name = "document_analysis" -> <<"text_content">>
      [] name = "internet_search" -> <<"query">>

RECURSIVE Quoted(_)
Quoted(names) ==
    IF names = <<>> THEN <<>>
    ELSE L(" '") \o L(Head(names)) \o L("'") \o Quoted(Tail(names))

\* the text of the TypeError of tool_func(**tool_args) when the keywords do
\* not bind: a keyword the function does not have is reported before a
\* parameter that is missing
bind_error(name, tool_args) ==
    IF ~IsDict(tool_args) THEN L("argument after ** must be a mapping")
    ELSE LET given == DOMAIN tool_args.d
             unexpected == given \ ToolParams(name)
             missing == SelectSeq(ToolParamSeq(name), LAMBDA q : q \notin given)
         IN  IF unexpected # {}
             THEN L("got an unexpected keyword argument '")
                  \o L(CHOOSE k \in unexpected : TRUE) \o L("'")
             ELSE L("missing required positional arguments:") \o Quoted(missing)

\* the body is entered whatever keywords are given
tool_entered_always(name, tool_args) == TRUE

\* whether the function body was entered (the keywords bound)
tool_entered(name, tool_args) ==
    IsDict(tool_args) /\ DOMAIN tool_args.d = ToolParams(name)

ToolResult(r) ==
    IF r.raised THEN "raised"
    ELSE IF Truthy(Get(r.out.d, "success")) THEN "success" ELSE "failure"

----------------------------------------------------------------------------
(* src/backend/app.py: call_ollama.                                        *)

\* messages_for_ollama without the test of the sender: the info messages
\* of the agent are sent as assistant messages
ollama_messages_every_sender(system_prompt, prompt_text, conversation_history) ==
    LET kept == LastN(conversation_history, ContextLimit)
    IN  <<[role |-> "system", content |-> system_prompt]>>
        \o [i \in 1..Len(kept) |->
               [role |-> IF kept[i].role = "user" THEN "user" ELSE "assistant",
                content |-> kept[i].text]]
        \o <<[role |-> "user", content |-> prompt_text]>>

\* messages_for_ollama
ollama_messages(system_prompt, prompt_text, conversation_history) ==
    LET last == LastN(conversation_history, ContextLimit)
        kept == SelectSeq(last, LAMBDA m : m.role \in {"user", "ai"})
    IN  <<[role |-> "system", content |-> system_prompt]>>
        \o [i \in 1..Len(kept) |->
               [role |-> IF kept[i].role = "user" THEN "user" ELSE "assistant",
                content |-> kept[i].text]]
        \o <<[role |-> "user", content |-> prompt_text]>>

\* call_ollama with its failures swallowed: an empty text is returned
call_ollama_empty_on_failure(model_name, reply) ==
    CASE reply.k = "response" -> Str(reply.text)
      [] reply.k = "no_response_key" -> S("No response from AI.")
      [] OTHER -> EmptyStr

\* what call_ollama returns for each reply of the service: every failure is
\* turned into an "ERROR: ..." text, nothing is raised
call_ollama(model_name, reply) ==
    CASE reply.k = "response" -> Str(reply.text)
      [] reply.k = "no_response_key" -> S("No response from AI.")
      [] reply.k = "request_exception" ->
            Str(L("ERROR: Failed to connect to local AI service (") \o Fmt(model_name)
                \o L("). Is Ollama running and model pulled? (<e>)"))
      [] reply.k = "invalid_json" -> S("ERROR: Invalid response from local AI service.")

ReplyResult(reply) ==
    IF reply.k \in {"response", "no_response_key"} THEN "ok" ELSE "failed"

----------------------------------------------------------------------------
(* src/backend/app.py: chat(), the orchestration try block.                *)

\* chat() keeps one conversation: its rows carry no chat id
NoChat == None

\* the result of a block of the handler: the exception that left it (or
\* "none"), the effects it had, and the locals it assigned
Res(exc, eff, text, action, details, info) ==
    [exc |-> exc, eff |-> eff, text |-> text, action |-> action,
     details |-> details, info |-> info]
\* an exception leaving the block, with the text str(e) gives
RaisedMsg(exc, eff, msg) ==
    [exc |-> exc, eff |-> eff, text |-> None, action |-> None,
     details |-> None, info |-> None, msg |-> msg]
Raised(exc, eff) == RaisedMsg(exc, eff, L("<e>"))

\* tool_name in AVAILABLE_TOOLS
chat_tool_known(tool_name) ==
    IsStr(tool_name) /\ \E n \in AVAILABLE_TOOLS : tool_name.s = L(n)

NameOf(tool_name) == CHOOSE n \in AVAILABLE_TOOLS : tool_name.s = L(n)

\* the answers with the read_file answer naming the file only
chat_tool_success_without_content(name, out) ==
    CASE name = "read_file" ->
            [text |-> Str(L("Content of '") \o Fmt(out["filename"]) \o L("' was read.")),
             action |-> S("file_read_success"),
             info |-> Str(L("Tool Used: Read file '") \o Fmt(out["filename"])
                          \o L("' successfully."))]
      [] name = "write_file" ->
            [text |-> Str(L("Content written to '") \o Fmt(out["filename"]) \o L("'. ")
                          \o Fmt(GetDefault(out, "message", EmptyStr))),
             action |-> S("file_write_success"),
             info |-> Str(L("Tool Used: Wrote to file '") \o Fmt(out["filename"])
                          \o L("' successfully."))]
      [] name = "document_analysis" ->
            [text |-> Str(L("Document analyzed. ") \o Fmt(out["result"])),
             action |-> S("tool_used"),
             info |-> Str(L("Tool Used: Document analysis successfully. ")
                          \o Fmt(out["result"]))]
      [] name = "internet_search" ->
            [text |-> Str(L("Search results for '") \o Fmt(out["query"]) \o L("': ")
                          \o Fmt(out["results"])),
             action |-> S("internet_search_success"),
             info |-> Str(L("Tool Used: Internet search for '") \o Fmt(out["query"])
                          \o L("' successfully."))]

\* the answer for a tool output whose success flag is set
chat_tool_success(name, out) ==
    CASE name = "read_file" ->
            [text |-> Str(L("Content of '") \o Fmt(out["filename"]) \o L("': [fence] ")
                          \o Take(out["content"].s, DisplayLimit)
                          \o L("... [fence] (Content truncated for display if too long)")),
             action |-> S("file_read_success"),
             info |-> Str(L("Tool Used: Read file '") \o Fmt(out["filename"])
                          \o L("' successfully."))]
      [] name = "write_file" ->
            [text |-> Str(L("Content written to '") \o Fmt(out["filename"]) \o L("'. ")
                          \o Fmt(GetDefault(out, "message", EmptyStr))),
             action |-> S("file_write_success"),
             info |-> Str(L("Tool Used: Wrote to file '") \o Fmt(out["filename"])
                          \o L("' successfully."))]
      [] name = "document_analysis" ->
            [text |-> Str(L("Document analyzed. ") \o Fmt(out["result"])),
             action |-> S("tool_used"),
             info |-> Str(L("Tool Used: Document analysis successfully. ")
                          \o Fmt(out["result"]))]
      [] name = "internet_search" ->
            [text |-> Str(L("Search results for '") \o Fmt(out["query"]) \o L("': ")
                          \o Fmt(out["results"])),
             action |-> S("internet_search_success"),
             info |-> Str(L("Tool Used: Internet search for '") \o Fmt(out["query"])
                          \o L("' successfully."))]

\* the answer for a tool output read without its success flag: the action
\* of a tool that was used
chat_tool_failure_reports_use(name, out) ==
    [text |-> Str(L("Tool '") \o L(name) \o L("' failed. Error: ")
                  \o Fmt(GetDefault(out, "error", S("Unknown error.")))),
     action |-> S("tool_used"),
     info |-> Str(L("Tool Failed: ") \o L(name) \o L(". Error: ")
                  \o Fmt(GetDefault(out, "error", S("N/A"))))]

\* the answer for a tool output whose success flag is not set
chat_tool_failure(name, out) ==
    [text |-> Str(L("Tool '") \o L(name) \o L("' failed. Error: ")
                  \o Fmt(GetDefault(out, "error", S("Unknown error.")))),
     action |-> Str(L(name) \o L("_failure")),
     info |-> Str(L("Tool Failed: ") \o L(name) \o L(". Error: ")
                  \o Fmt(GetDefault(out, "error", S("N/A"))))]

\* action_type == "tool_call"
chat_tool_call(d, fs) ==
    LET tool_name == Get(d, "tool_name")
        tool_args == GetDefault(d, "tool_args", EmptyDict)
    IN  IF chat_tool_known(tool_name)
        THEN LET name == NameOf(tool_name)
                 sel == DbAdd("system-info",
                              Str(L("Agent selected tool: '") \o L(name) \o L("'")),
                              S("tool_selection"), NoChat)
                 r == tool_func(name, tool_args, fs)
                 call == IF tool_entered(name, tool_args)
                         THEN <<ToolCall(name, tool_args, ToolResult(r),
                                         IF r.raised THEN None
                                         ELSE Get(r.out.d, "content"))>>
                         ELSE <<>>
                 a == IF ToolResult(r) = "success"
                      THEN chat_tool_success(name, r.out.d)
                      ELSE chat_tool_failure(name, r.out.d)
             IN  IF r.raised
                 THEN RaisedMsg("Exception", <<sel>> \o call,
                                IF tool_entered(name, tool_args) THEN L("<e>")
                                ELSE bind_error(name, tool_args))
                 ELSE Res("none", <<sel>> \o call, a.text, a.action, r.out, a.info)
        ELSE Res("none", <<>>,
                 Str(L("Orchestrator requested unknown tool: ") \o Fmt(tool_name) \o L(".")),
                 S("orchestration_error"), None,
                 Str(L("Orchestration Error: Unknown tool '") \o Fmt(tool_name) \o L("'.")))

DelegateModels == {"deepseek-coder", "mistral"}

\* llm_model in ["deepseek-coder", "mistral"]
chat_llm_known(llm_model) ==
    IsStr(llm_model) /\ \E n \in DelegateModels : llm_model.s = L(n)

\* f"llm_{llm_model.replace('-', '_')}"
llm_action(llm_model) ==
    IF llm_model.s = L("deepseek-coder") THEN S("llm_deepseek_coder")
    ELSE Str(L("llm_") \o llm_model.s)

llm_system_prompt == S("<profile prompt> Your primary goal is to respond to the user based on the following refined prompt.")

\* the branch calling the selected model without the recent messages
chat_llm_call_without_history(d, reply, history) ==
    LET llm_model == Get(d, "llm_model")
        sub_prompt == Get(d, "sub_prompt")
        info == Str(L("Agent selected LLM: '") \o Fmt(llm_model)
                    \o L("' to generate response."))
    IN  IF chat_llm_known(llm_model)
        THEN IF ~IsStr(sub_prompt)
             THEN Raised("Exception", <<>>)
             ELSE Res("none",
                      <<DbAdd("system-info", info, S("llm_selection"), NoChat),
                        LlmCall("target", llm_model, sub_prompt,
                                ollama_messages(llm_system_prompt, sub_prompt, <<>>),
                                ReplyResult(reply), call_ollama(llm_model, reply))>>,
                      call_ollama(llm_model, reply), llm_action(llm_model), None, info)
        ELSE Res("none", <<>>,
                 Str(L("Orchestrator requested unknown LLM: ") \o Fmt(llm_model) \o L(".")),
                 S("orchestration_error"), None,
                 Str(L("Orchestration Error: Unknown LLM '") \o Fmt(llm_model) \o L("'.")))

\* action_type == "llm_call"
chat_llm_call(d, reply, history) ==
    LET llm_model == Get(d, "llm_model")
        sub_prompt == Get(d, "sub_prompt")
        info == Str(L("Agent selected LLM: '") \o Fmt(llm_model)
                    \o L("' to generate response."))
    IN  IF chat_llm_known(llm_model)
        THEN IF ~IsStr(sub_prompt)
             THEN Raised("Exception", <<>>)          \* sub_prompt[:50]
             ELSE Res("none",
                      <<DbAdd("system-info", info, S("llm_selection"), NoChat),
                        LlmCall("target", llm_model, sub_prompt,
                                ollama_messages(llm_system_prompt, sub_prompt, history),
                                ReplyResult(reply), call_ollama(llm_model, reply))>>,
                      call_ollama(llm_model, reply), llm_action(llm_model), None, info)
        ELSE Res("none", <<>>,
                 Str(L("Orchestrator requested unknown LLM: ") \o Fmt(llm_model) \o L(".")),
                 S("orchestration_error"), None,
                 Str(L("Orchestration Error: Unknown LLM '") \o Fmt(llm_model) \o L("'.")))

\* the branch answering with its fixed text whatever the decision carries
chat_direct_response_fixed_text(d) ==
    Res("none", <<>>, S("Orchestrator responded directly."),
        S("orchestrator_direct"), None, S("Orchestrator responded directly."))

\* the branch with orchestrator_decision.get("response"), no default
chat_direct_response_no_default(d) ==
    Res("none", <<>>, Get(d, "response"),
        S("orchestrator_direct"), None, S("Orchestrator responded directly."))

\* action_type == "orchestrator_response"
chat_direct_response(d) ==
    Res("none", <<>>, GetDefault(d, "response", S("Orchestrator responded directly.")),
        S("orchestrator_direct"), None, S("Orchestrator responded directly."))

\* the body of the try block
chat_try(rawv, fs, reply, history) ==
    LET parsed == json_loads(rawv.s)
    IN  IF ~parsed.ok THEN Raised("JSONDecodeError", <<>>)
        ELSE IF ~IsDict(parsed.v) THEN Raised("Exception", <<>>)   \* .get of a non-dict
        ELSE LET d == parsed.v.d
                 action_type == Get(d, "action_type")
             IN  CASE action_type = S("tool_call") -> chat_tool_call(d, fs)
                   [] action_type = S("llm_call") -> chat_llm_call(d, reply, history)
                   [] action_type = S("orchestrator_response") -> chat_direct_response(d)
                   [] OTHER ->
                        Res("none", <<>>,
                            S("Orchestrator returned an unhandled action type."),
                            S("orchestration_error"), None,
                            S("Orchestration Error: Unhandled action type."))

\* the try block whose JSONDecodeError clause asks the general model instead
\* of reporting the parse error, as api_chat_route() does
chat_orchestrate_asks_general_model(rawv, fs, reply, history) ==
    LET r == chat_try(rawv, fs, reply, history)
    IN  CASE r.exc = "none" -> r
          [] r.exc = "JSONDecodeError" ->
                Res("none",
                    r.eff \o <<LlmCall("fallback", S("mistral"), None,
                                       ollama_messages(llm_system_prompt, EmptyStr, history),
                                       ReplyResult(reply), call_ollama(S("mistral"), reply))>>,
                    call_ollama(S("mistral"), reply),
                    S("orchestration_error"), r.details,
                    S("Orchestration Error: JSON parsing failed (<e>)."))
          [] OTHER ->
                Res("none", r.eff,
                    Str(L("An unexpected error occurred during orchestration: ") \o r.msg),
                    S("orchestration_error"), r.details,
                    Str(L("Orchestration Error: An unexpected error occurred (") \o r.msg
                        \o L(").")))

\* the try block with its two except clauses
chat_orchestrate(rawv, fs, reply, history) ==
    LET r == chat_try(rawv, fs, reply, history)
    IN  CASE r.exc = "none" -> r
          [] r.exc = "JSONDecodeError" ->
                Res("none", r.eff,
                    Str(L("Orchestrator response was not valid JSON. Error: <e>. Raw response: ")
                        \o rawv.s),
                    S("orchestration_error"), r.details,
                    S("Orchestration Error: JSON parsing failed (<e>)."))
          [] OTHER ->
                Res("none", r.eff,
                    Str(L("An unexpected error occurred during orchestration: ") \o r.msg),
                    S("orchestration_error"), r.details,
                    Str(L("Orchestration Error: An unexpected error occurred (") \o r.msg
                        \o L(").")))

----------------------------------------------------------------------------
(* src/app_chat_route.py: api_chat_route().  call_ollama and the tool      *)
(* functions are injected into the module: what they return, and whether   *)
(* they raise, is an input of the handler.                                 *)

RouteHistoryLimit == 10
SubPromptShown == 50
RoutePromptHistory == 5

\* a block's result, with the locals as they are when the block is left
RRes(exc, eff, text, action, details, info, atype) ==
    [exc |-> exc, eff |-> eff, text |-> text, action |-> action,
     details |-> details, info |-> info, atype |-> atype]

\* get_chat_history_from_db(chat_id, limit) reversed: the newest limit
\* rows of the chat, oldest first
get_chat_history_from_db(rows, chat_id, limit) ==
    LastN(SelectSeq(rows, LAMBDA m : m.chat = chat_id), limit)

\* condensed_history_for_orchestrator
condensed_history(raw_history) ==
    LET kept == SelectSeq(raw_history, LAMBDA m : m.role \in {"user", "assistant"})
    IN  [i \in 1..Len(kept) |-> [role |-> kept[i].role, content |-> kept[i].text]]

orchestrator_prompt(user_message) ==
    Str(L("<ORCHESTRATOR_SYSTEM_PROMPT> <AVAILABLE_TOOLS_AND_LLMS> <CHAT_HISTORY> USER_MESSAGE: ")
        \o user_message.s)

\* one branch of the tool_call block: what the tool did and what it set
Branch(raised, eff, text, msg, status, details) ==
    [raised |-> raised, eff |-> eff, text |-> text, msg |-> msg,
     status |-> status, details |-> details]

route_read_file(details, tr) ==
    LET filename == Get(details, "filename")
        ok == tr.k = "success"
        err == S("<tool error>")
    IN  IF Truthy(filename)
        THEN IF tr.k = "raise"
             THEN Branch(TRUE, <<ToolCall("read_file", filename, "raised", None)>>,
                         None, None, "failed", None)
             ELSE Branch(FALSE,
                    <<ToolCall("read_file", filename, IF ok THEN "success" ELSE "failure",
                               IF ok THEN Str(tr.c) ELSE None)>>,
                    IF ok
                    THEN Str(L("Successfully read '") \o Fmt(filename) \o L("'. Content: ")
                             \o tr.c)
                    ELSE Str(L("Error reading file '") \o Fmt(filename) \o L("': ")
                             \o err.s),
                    IF ok
                    THEN Str(L("Tool Used: read_file. File: ") \o Fmt(filename)
                             \o L(". Status: Success."))
                    ELSE Str(L("Tool Used: read_file. File: ") \o Fmt(filename)
                             \o L(". Status: Failed. Error: ") \o err.s),
                    IF ok THEN "success" ELSE "failed",
                    Dict([tool_name |-> S("read_file"), filename |-> filename,
                          success |-> Bool(ok), error |-> IF ok THEN None ELSE err]))
        ELSE Branch(FALSE, <<>>,
                    Str(L("Error: '") \o L("filename")
                        \o L("' not provided for read_file tool.")),
                    S("Tool Used: read_file. Status: Failed. Error: Missing filename."),
                    "failed", None)

route_write_file(details, tr) ==
    LET filename == Get(details, "filename")
        content == Get(details, "content")
        ok == tr.k = "success"
        err == S("<tool error>")
    IN  IF Truthy(filename) /\ content # None
        THEN IF tr.k = "raise"
             THEN Branch(TRUE, <<ToolCall("write_file", filename, "raised", None)>>,
                         None, None, "failed", None)
             ELSE Branch(FALSE,
                    <<ToolCall("write_file", filename, IF ok THEN "success" ELSE "failure",
                               None)>>,
                    IF ok
                    THEN Str(L("Successfully wrote to '") \o Fmt(filename) \o L("'."))
                    ELSE Str(L("Error writing to file '") \o Fmt(filename) \o L("': ")
                             \o err.s),
                    IF ok
                    THEN Str(L("Tool Used: write_file. File: ") \o Fmt(filename)
                             \o L(". Status: Success."))
                    ELSE Str(L("Tool Used: write_file. File: ") \o Fmt(filename)
                             \o L(". Status: Failed. Error: ") \o err.s),
                    IF ok THEN "success" ELSE "failed",
                    Dict([tool_name |-> S("write_file"), filename |-> filename,
                          success |-> Bool(ok), error |-> IF ok THEN None ELSE err]))
        ELSE Branch(FALSE, <<>>,
                    Str(L("Error: '") \o L("filename") \o L("' or '") \o L("content")
                        \o L("' not provided for write_file tool.")),
                    S("Tool Used: write_file. Status: Failed. Error: Missing filename or content."),
                    "failed", None)

route_document_analysis(details, tr) ==
    LET filename == Get(details, "filename")
        doc_content == Get(details, "document_content")
        analysis_query == Get(details, "analysis_query")
        ok == tr.k = "success"
        err == S("<tool error>")
        source == IF Truthy(filename) THEN Fmt(filename) ELSE L("text")
    IN  IF (Truthy(filename) \/ Truthy(doc_content)) /\ Truthy(analysis_query)
        THEN IF tr.k = "raise"
             THEN Branch(TRUE, <<ToolCall("document_analysis", filename, "raised", None)>>,
                         None, None, "failed", None)
             ELSE Branch(FALSE,
                    <<ToolCall("document_analysis", filename,
                               IF ok THEN "success" ELSE "failure", None)>>,
                    IF ok
                    THEN Str(L("Document Analysis Result: ") \o L("<analysis of> ") \o source)
                    ELSE Str(L("Error in document analysis: ") \o err.s),
                    IF ok
                    THEN Str(L("Tool Used: document_analysis. Source: ") \o source
                             \o L(". Query: ") \o Fmt(analysis_query) \o L(". Status: Success."))
                    ELSE Str(L("Tool Used: document_analysis. Source: ") \o source
                             \o L(". Query: ") \o Fmt(analysis_query)
                             \o L(". Status: Failed. Error: ") \o err.s),
                    IF ok THEN "success" ELSE "failed",
                    Dict([tool_name |-> S("document_analysis"), filename |-> filename,
                          document_content_provided |-> Bool(Truthy(doc_content)),
                          analysis_query |-> analysis_query,
                          success |-> Bool(ok), error |-> IF ok THEN None ELSE err]))
        ELSE Branch(FALSE, <<>>,
                    Str(L("Error: Missing parameters for document_analysis tool (")
                        \o L("filename") \o L("/") \o L("document_content") \o L(" or ")
                        \o L("analysis_query") \o L(").")),
                    S("Tool Used: document_analysis. Status: Failed. Error: Missing parameters."),
                    "failed", None)

route_unknown_tool(tool_name) ==
    Branch(FALSE, <<>>,
           Str(L("Error: Unknown tool '") \o Fmt(tool_name) \o L("' selected by orchestrator.")),
           Str(L("Tool Used: Unknown (") \o Fmt(tool_name)
               \o L("). Status: Failed. Error: Orchestrator selected an unrecognized tool.")),
           "failed", None)

\* the tools AVAILABLE_TOOLS_AND_LLMS declares to the orchestrating model
RouteTools == {"read_file", "write_file", "document_analysis"}
RouteModels == {"deepseek-coder", "mistral"}

\* the chain with its last elif written as the else: every other name runs
\* the document analysis
route_tool_branch_last_else(tool_name, details, tr) ==
    CASE tool_name = S("read_file") -> route_read_file(details, tr)
      [] tool_name = S("write_file") -> route_write_file(details, tr)
      [] OTHER -> route_document_analysis(details, tr)

\* the if/elif chain over tool_name
\* the chain with a second attempt: a tool that failed is run again
route_tool_branch_retries(tool_name, details, tr) ==
    LET b == CASE tool_name = S("read_file") -> route_read_file(details, tr)
               [] tool_name = S("write_file") -> route_write_file(details, tr)
               [] tool_name = S("document_analysis") -> route_document_analysis(details, tr)
               [] OTHER -> route_unknown_tool(tool_name)
    IN  [b EXCEPT !.eff = IF b.status = "failed" THEN b.eff \o b.eff ELSE b.eff]

route_tool_branch(tool_name, details, tr) ==
    CASE tool_name = S("read_file") -> route_read_file(details, tr)
      [] tool_name = S("write_file") -> route_write_file(details, tr)
      [] tool_name = S("document_analysis") -> route_document_analysis(details, tr)
      [] OTHER -> route_unknown_tool(tool_name)

\* the block with details.get("tool_name", "read_file"): a decision without
\* a tool name is completed with a default tool
route_tool_call_default_name(atype, details, tr, chat_id) ==
    IF ~IsDict(details) THEN RRes("Exception", <<>>, None, None, None, None, atype)
    ELSE
    LET tool_name == GetDefault(details.d, "tool_name", S("read_file"))
        info == Str(L("Orchestrator selected tool: ") \o Fmt(tool_name) \o L("."))
        sel == DbAdd("system", info, Str(L("orchestrator_tool_") \o Fmt(tool_name)), chat_id)
        b == route_tool_branch(tool_name, details.d, tr)
        action == Str(L("tool_") \o Fmt(tool_name) \o L("_") \o L(b.status))
    IN  IF b.raised
        THEN RRes("Exception", <<sel>> \o b.eff, None, None, None, info, atype)
        ELSE RRes("none", <<sel>> \o b.eff \o <<DbAdd("system", b.msg, action, chat_id)>>,
                  b.text, action, b.details, info, atype)

\* the block with the selection recorded after the tool has run
route_tool_call_selects_late(atype, details, tr, chat_id) ==
    IF ~IsDict(details) THEN RRes("Exception", <<>>, None, None, None, None, atype)
    ELSE
    LET tool_name == Get(details.d, "tool_name")
        info == Str(L("Orchestrator selected tool: ") \o Fmt(tool_name) \o L("."))
        sel == DbAdd("system", info, Str(L("orchestrator_tool_") \o Fmt(tool_name)), chat_id)
        b == route_tool_branch(tool_name, details.d, tr)
        action == Str(L("tool_") \o Fmt(tool_name) \o L("_") \o L(b.status))
    IN  IF b.raised
        THEN RRes("Exception", b.eff \o <<sel>>, None, None, None, info, atype)
        ELSE RRes("none", b.eff \o <<sel>> \o <<DbAdd("system", b.msg, action, chat_id)>>,
                  b.text, action, b.details, info, atype)

\* action_type == "tool_call"
route_tool_call(atype, details, tr, chat_id) ==
    IF ~IsDict(details) THEN RRes("Exception", <<>>, None, None, None, None, atype)
    ELSE
    LET tool_name == Get(details.d, "tool_name")
        info == Str(L("Orchestrator selected tool: ") \o Fmt(tool_name) \o L("."))
        sel == DbAdd("system", info, Str(L("orchestrator_tool_") \o Fmt(tool_name)), chat_id)
        b == route_tool_branch(tool_name, details.d, tr)
        action == Str(L("tool_") \o Fmt(tool_name) \o L("_") \o L(b.status))
    IN  IF b.raised
        THEN RRes("Exception", <<sel>> \o b.eff, None, None, None, info, atype)
        ELSE RRes("none", <<sel>> \o b.eff \o <<DbAdd("system", b.msg, action, chat_id)>>,
                  b.text, action, b.details, info, atype)

\* action_type == "llm_call"
route_llm_call(atype, details, reply, user_message, history, chat_id) ==
    IF ~IsDict(details) THEN RRes("Exception", <<>>, None, None, None, None, atype)
    ELSE
    LET llm_model == Get(details.d, "llm_model")
        sub_prompt == Get(details.d, "sub_prompt")
        info == Str(L("Orchestrator selected LLM: ") \o Fmt(llm_model)
                    \o L(" with sub-prompt: '") \o Take(Fmt(sub_prompt), SubPromptShown)
                    \o L("...'"))
        sel == DbAdd("system", info, Str(L("orchestrator_llm_") \o Fmt(llm_model)), chat_id)
        ok == reply.k = "response"
        failed == Str(L("llm_") \o Fmt(llm_model) \o L("_failed"))
    IN  IF ~IsStr(sub_prompt)
        THEN RRes("Exception", <<>>, None, None, None, None, atype)      \* sub_prompt[:50]
        ELSE IF Truthy(llm_model) /\ Truthy(sub_prompt)
        THEN IF ok
             THEN RRes("none",
                       <<sel, LlmCall("target", llm_model, sub_prompt, history, "ok",
                                      Str(reply.text))>>,
                       Str(reply.text),
                       Str(L("llm_") \o Fmt(llm_model) \o L("_success")), None, info, atype)
             ELSE RRes("none",
                       <<sel, LlmCall("target", llm_model, sub_prompt, history, "failed", None),
                         DbAdd("system",
                               Str(L("Failed to get response from ") \o Fmt(llm_model)
                                   \o L(": <e>")),
                               failed, chat_id)>>,
                       Str(L("Sorry, there was an error contacting the ") \o Fmt(llm_model)
                           \o L(" model.")),
                       failed, None, info, atype)
        ELSE IF ok
             THEN RRes("none",
                       <<sel, LlmCall("fallback", S("mistral"), user_message, history, "ok",
                                      Str(reply.text))>>,
                       Str(reply.text),
                       S("llm_mistral_fallback_bad_orchestrator_llm_call"), None, info, atype)
             ELSE RRes("Exception",
                       <<sel, LlmCall("fallback", S("mistral"), user_message, history,
                                      "failed", None)>>,
                       None, None, None, info, atype)

\* the final else: an action_type that is neither tool_call nor llm_call
route_unrecognized(atype, reply, user_message, history, chat_id) ==
    LET info == Str(L("System Error: Orchestrator returned unrecognized action_type '")
                    \o Fmt(atype) \o L("' or missing details."))
        msg == DbAdd("system", info, S("orchestrator_unrecognized_action"), chat_id)
    IN  IF reply.k = "response"
        THEN RRes("none",
                  <<msg, LlmCall("fallback", S("mistral"), user_message, history, "ok",
                                 Str(reply.text))>>,
                  Str(reply.text), S("llm_mistral_fallback_unrecognized_action"),
                  None, info, atype)
        ELSE RRes("Exception",
                  <<msg, LlmCall("fallback", S("mistral"), user_message, history,
                                 "failed", None)>>,
                  None, None, None, info, atype)

\* except json.JSONDecodeError: the fallback to the general model.  It
\* leaves action_type and details unassigned.
route_json_error(rawv, reply, user_message, history, chat_id) ==
    LET info == Str(L("System Error: Orchestrator response was not valid JSON. Raw: ")
                    \o rawv.s)
    IN  IF reply.k = "response"
        THEN RRes("none",
                  <<LlmCall("fallback", S("mistral"), user_message, history, "ok",
                            Str(reply.text)),
                    DbAdd("system", info, S("system_error"), chat_id)>>,
                  Str(reply.text), S("llm_mistral_fallback_json_error"), None, info, Unbound)
        ELSE RRes("Exception",
                  <<LlmCall("fallback", S("mistral"), user_message, history, "failed", None)>>,
                  None, None, None, info, Unbound)

\* step 6: the dispatch on action_type.  p holds the locals after step 5.
route_dispatch(p, details, tr, reply, user_message, history, chat_id) ==
    IF p.atype = Unbound
    THEN [p EXCEPT !.exc = "Exception"]                 \* reading an unassigned local
    ELSE CASE p.atype = S("tool_call") ->
                  route_tool_call(p.atype, details, tr, chat_id)
           [] p.atype = S("llm_call") ->
                  route_llm_call(p.atype, details, reply, user_message, history, chat_id)
           [] ~Truthy(p.atype) /\ Truthy(p.info) -> p
           [] OTHER ->
                  route_unrecognized(p.atype, reply, user_message, history, chat_id)

\* steps 5 and 6: the body of the outer try after the orchestrator's call
route_try(rawv, tr, reply, user_message, history, chat_id) ==
    LET parsed == json_loads(rawv.s)
    IN  IF ~parsed.ok
        THEN LET p == route_json_error(rawv, reply, user_message, history, chat_id)
             IN  IF p.exc # "none" THEN p
                 ELSE route_dispatch(p, None, tr, reply, user_message, history, chat_id)
        ELSE IF ~IsDict(parsed.v)
        THEN RRes("Exception", <<>>, None, None, None, None, Unbound)   \* .get of a non-dict
        ELSE LET d == parsed.v.d
                 atype == Get(d, "action_type")
                 p == RRes("none", <<>>, S("An error occurred."),
                           Str(L("orchestrator_mistral_success_") \o Fmt(atype)),
                           None, None, atype)
             IN  route_dispatch(p, GetDefault(d, "details", EmptyDict), tr, reply,
                                user_message, history, chat_id)

\* the except clause without its db_add_message: the error is answered but
\* not recorded
route_except_unrecorded(r, chat_id) ==
    [r EXCEPT !.exc = "none",
              !.text = S("An unexpected error occurred in the chat processing."),
              !.action = S("chat_api_exception")]

\* except Exception of the outer try
route_except(r, chat_id) ==
    [r EXCEPT !.exc = "none",
              !.eff = r.eff \o <<DbAdd("system", S("API Exception: <e>"),
                                      S("chat_api_exception"), chat_id)>>,
              !.text = S("An unexpected error occurred in the chat processing."),
              !.action = S("chat_api_exception")]

\* the outer try with its except clause
route_orchestrate(rawv, tr, reply, user_message, history, chat_id) ==
    LET r == route_try(rawv, tr, reply, user_message, history, chat_id)
    IN  IF r.exc = "none" THEN r ELSE route_except(r, chat_id)

----------------------------------------------------------------------------
(* Inputs: the request, the rows already stored, the replies of the model  *)
(* service, the file system and the outcomes of the route's tools.         *)

MaxSeed == 6        \* rows in the message store when the request arrives
MaxExtra == 1       \* characters of the longest file beyond DisplayLimit

Opt(k, vs) == {[x \in {} |-> None]} \cup {(k :> v) : v \in vs}

Chars(n) == [i \in 1..n |-> [c |-> "x"]]
FileContents ==
    {<<>>, <<[c |-> "h"], [c |-> "i"]>>, Chars(DisplayLimit), Chars(DisplayLimit + MaxExtra)}

FsStates ==
    {[k |-> x, c |-> <<>>] : x \in {"missing", "notfile", "ioerror"}}
    \cup {[k |-> "content", c |-> c] : c \in FileContents}

ToolOutcomes ==
    {[k |-> x, c |-> <<>>] : x \in {"failure", "raise"}}
    \cup {[k |-> "success", c |-> c] : c \in FileContents}

ReplyTexts == {L("Generated answer."), <<>>}

ChatReplies ==
    {[k |-> "response", text |-> t] : t \in ReplyTexts}
    \cup {[k |-> x, text |-> <<>>] :
            x \in {"no_response_key", "request_exception", "invalid_json"}}

RouteReplies ==
    {[k |-> "response", text |-> t] : t \in ReplyTexts} \cup {[k |-> "raise", text |-> <<>>]}

ToolNames ==
    {None, S("read_file"), S("write_file"), S("document_analysis"),
     S("internet_search"), S("delete_file")}

ChatToolArgs ==
    {None, EmptyDict,
     Dict([filename |-> S("notes.txt")]),
     Dict([filename |-> EmptyStr]),
     Dict([filename |-> Num]),
     Dict([filename |-> S("notes.txt"), content |-> S("data")]),
     Dict([filename |-> S("notes.txt"), content |-> None]),
     Dict([text_content |-> S("some text")]),
     Dict([text_content |-> None]),
     Dict([text |-> S("some text")]),
     Dict([query |-> S("weather")]),
     Dict([query |-> None])}

ChatToolDecisions ==
    {("action_type" :> S("tool_call")) @@ n @@ a :
        n \in Opt("tool_name", ToolNames), a \in Opt("tool_args", ChatToolArgs)}

RouteDetails ==
    {Dict(n @@ f @@ c @@ q) :
        n \in Opt("tool_name", ToolNames \ {S("internet_search")}),
        f \in Opt("filename", {S("notes.txt"), EmptyStr}),
        c \in Opt("content", {S("data")}),
        q \in Opt("analysis_query", {S("summarize")})}

RouteToolDecisions ==
    {("action_type" :> S("tool_call")) @@ ("details" :> x) : x \in RouteDetails \cup {None}}

LlmModels == {None, EmptyStr, S("mistral"), S("deepseek-coder"), S("gpt-4")}
SubPrompts == {None, EmptyStr, S("explain black holes")}

LlmFields ==
    {m @@ q : m \in Opt("llm_model", LlmModels), q \in Opt("sub_prompt", SubPrompts)}

ChatLlmDecisions == {("action_type" :> S("llm_call")) @@ x : x \in LlmFields}

RouteLlmDecisions ==
    {("action_type" :> S("llm_call")) @@ ("details" :> Dict(x)) : x \in LlmFields}

DirectDecisions ==
    {("action_type" :> S("orchestrator_response")) @@ r :
        r \in Opt("response", {None, EmptyStr, S("Hello!")})}

OtherDecisions == Opt("action_type", {None, Num, S("summarize")})

Decisions ==
    ChatToolDecisions \cup RouteToolDecisions \cup ChatLlmDecisions
    \cup RouteLlmDecisions \cup DirectDecisions \cup OtherDecisions

\* what the orchestrating model may answer
RawOutputs ==
    {<<>>, L("Sure, I can help with that."), J(None), J(Num), J(S("tool_call")),
     J(Dict("action_type" :> S("tool_call"))) \o L(" Hope this helps!")}
    \cup {J(Dict(d)) : d \in Decisions}

Payloads ==
    {None, EmptyDict,
     Dict([message |-> EmptyStr]),
     Dict([message |-> S(" ")]),
     Dict([message |-> S("read file notes.txt")]),
     Dict([message |-> Str(<<[c |-> " "], [c |-> "hi"], [c |-> " "]>>), chat_id |-> S("c1")])}

\* the i-th row stored before the request
SeedRow(h, i) ==
    DbAdd(CASE i % 3 = 1 -> "user"
            [] i % 3 = 2 -> IF h = "chat" THEN "system-info" ELSE "system"
            [] OTHER -> IF h = "chat" THEN "ai" ELSE "assistant",
          Str(<<[c |-> "message "], [c |-> ToString(i)]>>),
          None,
          IF h = "chat" THEN NoChat ELSE IF i % 2 = 0 THEN S("c1") ELSE S("default_chat"))

Seed(h, n) == [i \in 1..n |-> SeedRow(h, i)]

\* an empty store, a short one, and one longer than every history limit
\* the two handlers read with
SeedSizes == {0, 2, MaxSeed}

----------------------------------------------------------------------------
(* The state machine of one request.                                       *)

Locals(user_message, chat_id, text, action, details, info, atype) ==
    [user_message |-> user_message, chat_id |-> chat_id, text |-> text,
     action |-> action, details |-> details, info |-> info, atype |-> atype]

Resp(status, answer, action, details, info, error) ==
    [status |-> status, answer |-> answer, agent_action |-> action,
     tool_details |-> details, system_info |-> info, error |-> error]

NoResp == Resp(0, None, None, None, None, None)

Init ==
    /\ handler \in {"chat", "route"}
    /\ pc = "receive"
    /\ payload \in Payloads
    /\ base \in SeedSizes
    /\ log = Seed(handler, base)
    /\ recent = <<>>
    /\ raw = None
    /\ loc = Locals(None, None, None, None, None, None, Unbound)
    /\ response = NoResp
    /\ outcome = "pending"

Return(r) ==
    /\ response' = r
    /\ outcome' = "returned"
    /\ pc' = "done"

Raise ==
    /\ response' = response
    /\ outcome' = "raised"
    /\ pc' = "done"

\* chat(), lines 238-319: the request is read, the user's message stored,
\* the recent rows read back and the "reasoning" row stored
ChatReceive ==
    /\ handler = "chat" /\ pc = "receive"
    /\ LET message == IF IsDict(payload)
                      THEN GetDefault(payload.d, "message", EmptyStr) ELSE None
           text == Str(Strip(message.s))
           stored == log \o <<DbAdd("user", text, None, NoChat)>>
       IN  IF ~IsDict(payload) \/ ~IsStr(message)
           THEN Raise /\ UNCHANGED <<log, recent, loc>>        \* None.get, None.strip
           ELSE IF ~Truthy(text)
           THEN /\ Return(Resp(200, S("Please provide a message."), S("none"),
                               None, None, None))
                /\ UNCHANGED <<log, recent, loc>>
           ELSE /\ log' = stored \o
                      <<DbAdd("system-info", S("Agent is reasoning about your request..."),
                              S("orchestrating"), NoChat)>>
                /\ recent' = LastN(Rows(stored), HistoryLimit)
                /\ loc' = Locals(text, NoChat, EmptyStr, S("none"), None,
                                 S("Agent is reasoning about your request..."), Unbound)
                /\ pc' = "decide"
                /\ UNCHANGED <<response, outcome>>
    /\ UNCHANGED <<handler, payload, base, raw>>

chat_prompt(user_message) == Str(L("User request: ") \o user_message.s)

orchestrator_system_prompt == S("<orchestrator system prompt>")

\* chat(), lines 321-326: the orchestrating model is asked once
ChatDecide ==
    /\ handler = "chat" /\ pc = "decide"
    /\ \E reply \in ChatReplies \cup {[k |-> "response", text |-> t] : t \in RawOutputs} :
          /\ raw' = call_ollama(S("mistral"), reply)
          /\ log' = Append(log,
                       LlmCall("orchestrator", S("mistral"), chat_prompt(loc.user_message),
                               ollama_messages(orchestrator_system_prompt,
                                               chat_prompt(loc.user_message), recent),
                               ReplyResult(reply), call_ollama(S("mistral"), reply)))
    /\ pc' = "dispatch"
    /\ UNCHANGED <<handler, payload, base, recent, loc, response, outcome>>

\* the dispatch as a loop: after a tool that gave an output the orchestrating
\* model is asked again
ChatDispatch_redecides ==
    /\ handler = "chat" /\ pc = "dispatch"
    /\ \E fs \in FsStates, reply \in ChatReplies :
          LET r == chat_orchestrate(raw, fs, reply, recent)
          IN  /\ log' = log \o r.eff
              /\ loc' = [loc EXCEPT !.text = r.text, !.action = r.action,
                                    !.details = r.details, !.info = r.info]
              /\ pc' = IF r.details # None THEN "decide" ELSE "respond"
    /\ UNCHANGED <<handler, payload, base, recent, raw, response, outcome>>

\* chat(), lines 328-413: the decision is decoded and carried out
ChatDispatch ==
    /\ handler = "chat" /\ pc = "dispatch"
    /\ \E fs \in FsStates, reply \in ChatReplies :
          LET r == chat_orchestrate(raw, fs, reply, recent)
          IN  /\ log' = log \o r.eff
              /\ loc' = [loc EXCEPT !.text = r.text, !.action = r.action,
                                    !.details = r.details, !.info = r.info]
    /\ pc' = "respond"
    /\ UNCHANGED <<handler, payload, base, recent, raw, response, outcome>>

\* chat(), lines 415-425: the system-info row and the answer are stored and
\* the response returned; Message.text is not nullable
ChatRespond ==
    /\ handler = "chat" /\ pc = "respond"
    /\ LET info == IF Truthy(loc.info) /\ loc.action # S("orchestrating")
                   THEN <<DbAdd("system-info", loc.info, loc.action, NoChat)>>
                   ELSE <<>>
       IN  IF loc.text = None
           THEN /\ log' = log \o info
                /\ Raise
           ELSE /\ log' = log \o info \o <<DbAdd("ai", loc.text, loc.action, NoChat)>>
                /\ Return(Resp(200, loc.text, loc.action, loc.details, None, None))
    /\ UNCHANGED <<handler, payload, base, recent, raw, loc>>

\* api_chat_route(), lines 107-150
RouteReceive ==
    /\ handler = "route" /\ pc = "receive"
    /\ LET chat_id == GetDefault(payload.d, "chat_id", S("default_chat"))
           message == Get(payload.d, "message")
           stored == log \o <<DbAdd("user", message, None, chat_id)>>
       IN  IF ~Truthy(payload)
           THEN /\ Return(Resp(400, None, None, None, None, S("Invalid JSON payload")))
                /\ UNCHANGED <<log, recent, loc>>
           ELSE IF ~Truthy(message)
           THEN /\ Return(Resp(400, None, None, None, None,
                               S("Missing 'message' in request")))
                /\ UNCHANGED <<log, recent, loc>>
           ELSE IF ~IsStr(message)
           THEN /\ log' = stored                                \* str + non-str
                /\ Raise
                /\ UNCHANGED <<recent, loc>>
           ELSE /\ log' = stored
                /\ recent' = condensed_history(
                                get_chat_history_from_db(Rows(stored), chat_id,
                                                         RouteHistoryLimit))
                /\ loc' = Locals(message, chat_id, S("An error occurred."),
                                 S("orchestrator_mistral_failed"), None, None, Unbound)
                /\ pc' = "decide"
                /\ UNCHANGED <<response, outcome>>
    /\ UNCHANGED <<handler, payload, base, raw>>

\* api_chat_route(), lines 152-153 (and 289-295 when the call raises)
RouteDecide ==
    /\ handler = "route" /\ pc = "decide"
    /\ \E reply \in {[k |-> "raise", text |-> <<>>]}
                    \cup {[k |-> "response", text |-> t] : t \in RawOutputs} :
          LET call(result, returned) ==
                  LlmCall("orchestrator", S("mistral"), orchestrator_prompt(loc.user_message),
                          LastN(recent, RoutePromptHistory), result, returned)
          IN  IF reply.k = "response"
              THEN /\ raw' = Str(reply.text)
                   /\ log' = Append(log, call("ok", Str(reply.text)))
                   /\ pc' = "dispatch"
                   /\ loc' = loc
              ELSE LET r == route_except(
                               RRes("Exception", <<call("failed", None)>>, loc.text,
                                    loc.action, loc.details, loc.info, loc.atype),
                               loc.chat_id)
                   IN  /\ raw' = raw
                       /\ log' = log \o r.eff
                       /\ loc' = [loc EXCEPT !.text = r.text, !.action = r.action]
                       /\ pc' = "respond"
    /\ UNCHANGED <<handler, payload, base, recent, response, outcome>>

\* api_chat_route(), lines 155-295
RouteDispatch ==
    /\ handler = "route" /\ pc = "dispatch"
    /\ \E tr \in ToolOutcomes, reply \in RouteReplies :
          LET r == route_orchestrate(raw, tr, reply, loc.user_message, recent, loc.chat_id)
          IN  /\ log' = log \o r.eff
              /\ loc' = [loc EXCEPT !.text = r.text, !.action = r.action,
                                    !.details = r.details, !.info = r.info,
                                    !.atype = r.atype]
    /\ pc' = "respond"
    /\ UNCHANGED <<handler, payload, base, recent, raw, response, outcome>>

\* api_chat_route(), lines 297-320: the answer is stored, then the payload
\* is built; line 317 reads action_type when a system message was set
RouteRespond ==
    /\ handler = "route" /\ pc = "respond"
    /\ log' = Append(log, DbAdd("assistant", loc.text, loc.action, loc.chat_id))
    /\ IF Truthy(loc.info) /\ loc.atype = Unbound
       THEN Raise
       ELSE Return(Resp(200, loc.text, loc.action, loc.details,
                        IF Truthy(loc.info) /\ loc.atype \notin {S("tool_call"), S("llm_call")}
                        THEN loc.info ELSE None,
                        None))
    /\ UNCHANGED <<handler, payload, base, recent, raw, loc>>

Next ==
    \/ ChatReceive
    \/ ChatDecide
    \/ ChatDispatch
    \/ ChatRespond
    \/ RouteReceive
    \/ RouteDecide
    \/ RouteDispatch
    \/ RouteRespond

Spec == Init /\ [][Next]_vars

----------------------------------------------------------------------------
(* Two requests of different conversations served at the same time.  The   *)
(* variables are those of one request, kept per request; the stored        *)
(* messages are shared.  A step is one commit, one read of the stored      *)
(* messages, or one block of the handler between two of them; calls of a   *)
(* model touch no shared state and are taken within the block they are in. *)
(* Each effect in the log carries the request that had it (0: stored       *)
(* before).                                                                *)

Reqs == {1, 2}

Tag(r, eff) == [i \in DOMAIN eff |-> eff[i] @@ [req |-> r]]

\* the bodies of the two requests: two clients, two conversations
PairPayload(r) ==
    IF r = 1
    THEN Dict([message |-> S("question of alice"), chat_id |-> S("c1")])
    ELSE Dict([message |-> S("question of bob"), chat_id |-> S("c2")])

\* what the orchestrating model answers: a direct response or a delegate
\* call, in the form each handler reads
PairOutputs ==
    {J(Dict([action_type |-> S("orchestrator_response"), response |-> S("Hello!")]))}
    \cup (IF handler = "chat"
          THEN {J(Dict([action_type |-> S("llm_call"), llm_model |-> S("mistral"),
                        sub_prompt |-> S("explain black holes")]))}
          ELSE {J(Dict([action_type |-> S("llm_call"),
                        details |-> Dict([llm_model |-> S("mistral"),
                                          sub_prompt |-> S("explain black holes")])]))})

PairReply == [k |-> "response", text |-> L("Generated answer.")]

InitPair ==
    /\ handler \in {"chat", "route"}
    /\ pc = [r \in Reqs |-> "receive"]
    /\ payload = [r \in Reqs |-> PairPayload(r)]
    /\ base \in SeedSizes
    /\ log = Tag(0, Seed(handler, base))
    /\ recent = [r \in Reqs |-> <<>>]
    /\ raw = [r \in Reqs |-> None]
    /\ loc = [r \in Reqs |-> Locals(None, None, None, None, None, None, Unbound)]
    /\ response = [r \in Reqs |-> NoResp]
    /\ outcome = [r \in Reqs |-> "pending"]

\* chat(), lines 238-247; api_chat_route(), lines 107-120: the user's
\* message is stored
PairReceive(r) ==
    /\ pc[r] = "receive"
    /\ LET message == Get(payload[r].d, "message")
           chat_id == IF handler = "chat" THEN NoChat
                      ELSE GetDefault(payload[r].d, "chat_id", S("default_chat"))
           text == IF handler = "chat" THEN Str(Strip(message.s)) ELSE message
       IN  /\ log' = log \o Tag(r, <<DbAdd("user", text, None, chat_id)>>)
           /\ loc' = [loc EXCEPT ![r] =
                         IF handler = "chat"
                         THEN Locals(text, chat_id, EmptyStr, S("none"), None, None, Unbound)
                         ELSE Locals(text, chat_id, S("An error occurred."),
                                     S("orchestrator_mistral_failed"), None, None, Unbound)]
    /\ pc' = [pc EXCEPT ![r] = "read"]
    /\ UNCHANGED <<handler, payload, base, recent, raw, response, outcome>>

\* chat(), lines 249-251; api_chat_route(), lines 125-131: the history is
\* read from the stored messages
PairRead(r) ==
    /\ pc[r] = "read"
    /\ recent' = [recent EXCEPT ![r] =
                     IF handler = "chat"
                     THEN LastN(Rows(log), HistoryLimit)
                     ELSE condensed_history(
                              get_chat_history_from_db(Rows(log), loc[r].chat_id,
                                                       RouteHistoryLimit))]
    /\ pc' = [pc EXCEPT ![r] = "decide"]
    /\ UNCHANGED <<handler, payload, base, log, raw, loc, response, outcome>>

\* chat(), lines 253-326; api_chat_route(), lines 133-153: the orchestrating
\* model is asked with the history the request has read
PairDecide(r) ==
    /\ pc[r] = "decide"
    /\ \E out \in PairOutputs :
          /\ raw' = [raw EXCEPT ![r] = Str(out)]
          /\ log' = log \o Tag(r,
                IF handler = "chat"
                THEN <<DbAdd("system-info", S("Agent is reasoning about your request..."),
                             S("orchestrating"), NoChat),
                       LlmCall("orchestrator", S("mistral"),
                               chat_prompt(loc[r].user_message),
                               ollama_messages(orchestrator_system_prompt,
                                               chat_prompt(loc[r].user_message),
                                               recent[r]),
                               "ok", Str(out))>>
                ELSE <<LlmCall("orchestrator", S("mistral"),
                               orchestrator_prompt(loc[r].user_message),
                               LastN(recent[r], RoutePromptHistory), "ok", Str(out))>>)
    /\ loc' = [loc EXCEPT ![r].info =
                  IF handler = "chat" THEN S("Agent is reasoning about your request...")
                  ELSE @]
    /\ pc' = [pc EXCEPT ![r] = "dispatch"]
    /\ UNCHANGED <<handler, payload, base, recent, response, outcome>>

\* chat(), lines 328-413; api_chat_route(), lines 155-295: the decision is
\* carried out with the history the request has read
PairDispatch(r) ==
    /\ pc[r] = "dispatch"
    /\ LET c == chat_orchestrate(raw[r], [k |-> "missing", c |-> <<>>], PairReply, recent[r])
           t == route_orchestrate(raw[r], [k |-> "failure", c |-> <<>>], PairReply,
                                  loc[r].user_message, recent[r], loc[r].chat_id)
       IN  IF handler = "chat"
           THEN /\ log' = log \o Tag(r, c.eff)
                /\ loc' = [loc EXCEPT ![r].text = c.text, ![r].action = c.action,
                                      ![r].details = c.details, ![r].info = c.info]
           ELSE /\ log' = log \o Tag(r, t.eff)
                /\ loc' = [loc EXCEPT ![r].text = t.text, ![r].action = t.action,
                                      ![r].details = t.details, ![r].info = t.info,
                                      ![r].atype = t.atype]
    /\ pc' = [pc EXCEPT ![r] = "respond"]
    /\ UNCHANGED <<handler, payload, base, recent, raw, response, outcome>>

\* chat(), lines 415-425; api_chat_route(), lines 297-320: the answer is
\* stored and returned
PairRespond(r) ==
    /\ pc[r] = "respond"
    /\ LET l == loc[r]
           info == IF handler = "chat" /\ Truthy(l.info) /\ l.action # S("orchestrating")
                   THEN <<DbAdd("system-info", l.info, l.action, NoChat)>>
                   ELSE <<>>
           answer == IF handler = "chat"
                     THEN IF l.text = None THEN <<>>
                          ELSE <<DbAdd("ai", l.text, l.action, NoChat)>>
                     ELSE <<DbAdd("assistant", l.text, l.action, l.chat_id)>>
           raises == IF handler = "chat" THEN l.text = None
                     ELSE Truthy(l.info) /\ l.atype = Unbound
       IN  /\ log' = log \o Tag(r, info \o answer)
           /\ outcome' = [outcome EXCEPT ![r] = IF raises THEN "raised" ELSE "returned"]
           /\ response' = [response EXCEPT ![r] =
                 IF raises THEN @
                 ELSE Resp(200, l.text, l.action, l.details,
                           IF handler = "route" /\ Truthy(l.info)
                              /\ l.atype \notin {S("tool_call"), S("llm_call")}
                           THEN l.info ELSE None,
                           None)]
    /\ pc' = [pc EXCEPT ![r] = "done"]
    /\ UNCHANGED <<handler, payload, base, recent, raw, loc>>

NextPair ==
    \E r \in Reqs :
        \/ PairReceive(r)
        \/ PairRead(r)
        \/ PairDecide(r)
        \/ PairDispatch(r)
        \/ PairRespond(r)

SpecPair == InitPair /\ [][NextPair]_vars

----------------------------------------------------------------------------
(* src/backend/agent_core.py: discover_tools.  The variables hold the run  *)
(* of the discovery: payload is the listing of the tools directory, base   *)
(* the module reached, recent the member reached within it, loc the two    *)
(* dictionaries built so far, log the assignments of line 48 in the order  *)
(* they were made, response what the function returned.                    *)

MaxModules == 2

\* the names of the functions a tool module may define, in the order
\* inspect.getmembers lists them (sorted by name)
MemberNames == <<"another_tool", "read_file_tool">>

SchemaDict(n) == Dict([name |-> S(n), description |-> S("a tool")])

\* what func.tool_schema may be: absent, a JSON text of an object, a JSON
\* text of a number, a text that is not JSON, a dict, a number
SchemaValues(n) ==
    {Unbound, Str(J(SchemaDict(n))), Str(J(Num)), S("{not json"), SchemaDict(n), Num}

\* the members of one module: one or both names, each with a schema
ModuleMembers ==
    {<<[name |-> MemberNames[i], schema |-> x]>> :
        i \in DOMAIN MemberNames, x \in SchemaValues("t")}
    \cup {<<[name |-> MemberNames[1], schema |-> x],
            [name |-> MemberNames[2], schema |-> y]>> :
            x \in {Unbound, SchemaDict("t")}, y \in SchemaValues("t")}

Modules ==
    {[imports |-> TRUE, members |-> ms] : ms \in ModuleMembers}
    \cup {[imports |-> FALSE, members |-> <<>>]}

EmptyPyDict == [x \in {} |-> None]

\* d[k] = v
SetItem(d, k, v) == [x \in DOMAIN d \cup {k} |-> IF x = k THEN v ELSE d[x]]

\* lines 50-61: the schema stored for the attribute
stored_schema(schema) ==
    IF IsStr(schema)
    THEN IF json_loads(schema.s).ok THEN json_loads(schema.s).v
         ELSE Dict([error |-> S("Invalid JSON schema")])
    ELSE IF IsDict(schema) THEN schema
    ELSE Dict([error |-> S("Schema is not in a recognizable format")])

InitDiscover ==
    /\ handler = "discover"
    /\ pc = "import"
    /\ payload \in [1..MaxModules -> Modules]
    /\ base = 1
    /\ recent = 1
    /\ log = <<>>
    /\ raw = None
    /\ loc = [tool_functions |-> EmptyPyDict, tool_schemas |-> EmptyPyDict]
    /\ response = NoResp
    /\ outcome = "pending"

\* lines 37-43, 63-66: the next file is imported; a module that fails to
\* import is passed over
DiscoverImport ==
    /\ handler = "discover" /\ pc = "import"
    /\ base <= Len(payload)
    /\ IF payload[base].imports
       THEN pc' = "members" /\ recent' = 1 /\ base' = base
       ELSE pc' = "import" /\ recent' = recent /\ base' = base + 1
    /\ UNCHANGED <<handler, payload, log, raw, loc, response, outcome>>

\* lines 45-61: the next function of the module; one with a tool_schema is
\* assigned to both dictionaries
DiscoverMember ==
    /\ handler = "discover" /\ pc = "members"
    /\ LET ms == payload[base].members
       IN  IF recent > Len(ms)
           THEN /\ pc' = "import" /\ base' = base + 1 /\ recent' = recent
                /\ UNCHANGED <<log, loc>>
           ELSE LET name == ms[recent].name
                    func == <<base, name>>
                    schema == ms[recent].schema
                IN  /\ pc' = pc /\ base' = base /\ recent' = recent + 1
                    /\ IF schema = Unbound
                       THEN UNCHANGED <<log, loc>>
                       ELSE /\ log' = Append(log, [name |-> name, func |-> func,
                                                   schema |-> schema])
                            /\ loc' = [tool_functions |->
                                           SetItem(loc.tool_functions, name, func),
                                       tool_schemas |->
                                           SetItem(loc.tool_schemas, name,
                                                   stored_schema(schema))]
    /\ UNCHANGED <<handler, payload, raw, response, outcome>>

\* line 76
DiscoverReturn ==
    /\ handler = "discover" /\ pc = "import"
    /\ base > Len(payload)
    /\ response' = loc
    /\ outcome' = "returned"
    /\ pc' = "done"
    /\ UNCHANGED <<handler, payload, base, recent, log, raw, loc>>

NextDiscover ==
    \/ DiscoverImport
    \/ DiscoverMember
    \/ DiscoverReturn

SpecDiscover == InitDiscover /\ [][NextDiscover]_vars

----------------------------------------------------------------------------
(* The decoding of the orchestrating model's text, applied twice to the    *)
(* same text: chat(), lines 328-334 and 398-413; api_chat_route(), lines   *)
(* 156-160 and 289.  raw is the text, loc the first result, response the   *)
(* second.                                                                 *)

\* what the decoding gives: the exception of json.loads or of .get, or the
\* action type with the fields the dispatch reads and whether the tool and
\* the model named are ones the handler knows
decode(h, rawv) ==
    LET p == json_loads(rawv.s)
    IN  IF ~p.ok THEN [err |-> "JSONDecodeError"]
        ELSE IF ~IsDict(p.v) THEN [err |-> "AttributeError"]
        ELSE LET d == p.v.d
                 details == GetDefault(d, "details", EmptyDict)
                 f == IF h = "chat" THEN d
                      ELSE IF IsDict(details) THEN details.d ELSE EmptyDict.d
             IN  [err |-> "none",
                  action_type |-> Get(d, "action_type"),
                  details |-> IF h = "chat" THEN None ELSE details,
                  tool_name |-> Get(f, "tool_name"),
                  tool_known |->
                      IF h = "chat" THEN chat_tool_known(Get(f, "tool_name"))
                      ELSE Get(f, "tool_name") \in {S(t) : t \in RouteTools},
                  llm_model |-> Get(f, "llm_model"),
                  llm_known |->
                      IF h = "chat" THEN chat_llm_known(Get(f, "llm_model"))
                      ELSE Truthy(Get(f, "llm_model")),
                  sub_prompt |-> Get(f, "sub_prompt"),
                  response |-> Get(d, "response")]

InitDecode ==
    /\ handler \in {"chat", "route"}
    /\ pc = "first"
    /\ raw \in {Str(t) : t \in RawOutputs}
    /\ payload = None
    /\ base = 0
    /\ log = <<>>
    /\ recent = <<>>
    /\ loc = None
    /\ response = None
    /\ outcome = "pending"

\* a decoding that reads the text as a stream: the text is used up
DecodeFirst_consumes ==
    /\ pc = "first"
    /\ loc' = decode(handler, raw)
    /\ raw' = EmptyStr
    /\ pc' = "second"
    /\ UNCHANGED <<handler, payload, base, log, recent, response, outcome>>

DecodeFirst ==
    /\ pc = "first"
    /\ loc' = decode(handler, raw)
    /\ pc' = "second"
    /\ UNCHANGED <<handler, payload, base, log, recent, raw, response, outcome>>

DecodeSecond ==
    /\ pc = "second"
    /\ response' = decode(handler, raw)
    /\ pc' = "done"
    /\ UNCHANGED <<handler, payload, base, log, recent, raw, loc, outcome>>

NextDecode ==
    \/ DecodeFirst
    \/ DecodeSecond

SpecDecode == InitDecode /\ [][NextDecode]_vars

----------------------------------------------------------------------------
(* _resolve_filepath of src/backend/app.py (lines 100-112) and of          *)
(* src/backend/tools/file_tools.py (lines 7-24), with the two file tools   *)
(* that call it.  A path is a sequence of components and a component a     *)
(* sequence of pieces of text, so that one name can begin with another;    *)
(* the text of a path is the sequence of its pieces with a "/" before      *)
(* every component.  handler is the file the function is in, payload the   *)
(* filename, response what the function returned, log the paths the tool   *)
(* touched.                                                                *)

MaxDepth == 3

DotDot == <<"..">>
Dot == <<".">>

\* the names a filename is made of; the last begins with the name of the
\* workspace directory
NameParts ==
    {DotDot, Dot, <<"notes.txt">>, <<"etc">>, <<"agent_workspace", "_evil">>}

\* os.path.expanduser('~/psi_pwa_linux_new/agent_workspace')
AGENT_WORKSPACE_DIR == << <<"home">>, <<"psi_pwa_linux_new">>, <<"agent_workspace">> >>

\* a filename: leading slashes, then components
Filenames ==
    {[lead |-> l, parts |-> ps] :
        l \in 0..1, ps \in UNION {[1..n -> NameParts] : n \in 0..MaxDepth}}

\* os.path.abspath of an absolute path: "." is dropped, ".." drops the
\* component before it and is dropped itself at the root
RECURSIVE normpath(_, _)
normpath(parts, acc) ==
    IF parts = <<>> THEN acc
    ELSE IF Head(parts) = Dot THEN normpath(Tail(parts), acc)
    ELSE IF Head(parts) = DotDot
    THEN normpath(Tail(parts),
                  IF acc = <<>> THEN acc ELSE SubSeq(acc, 1, Len(acc) - 1))
    ELSE normpath(Tail(parts), Append(acc, Head(parts)))

abspath(parts) == normpath(parts, <<>>)

\* the text of an absolute path
RECURSIVE PathText(_)
PathText(parts) ==
    IF parts = <<>> THEN <<>>
    ELSE <<"/">> \o Head(parts) \o PathText(Tail(parts))

\* str.startswith
startswith(text, prefix) ==
    Len(text) >= Len(prefix) /\ SubSeq(text, 1, Len(prefix)) = prefix

\* the function of either file; only file_tools.py has the test for ".."
resolve_filepath(file, filename) ==
    IF filename.lead = 0 /\ filename.parts = <<>>
    THEN [filepath |-> None, error |-> S("Filename cannot be empty.")]
    ELSE LET safe_filename == filename.parts
             filepath == AGENT_WORKSPACE_DIR \o safe_filename
         IN  IF file = "file_tools.py"
                /\ \E i \in DOMAIN safe_filename : safe_filename[i] = DotDot
             THEN [filepath |-> None, error |-> S("Invalid filename: path traversal detected")]
             ELSE IF ~startswith(PathText(abspath(filepath)),
                                 PathText(abspath(AGENT_WORKSPACE_DIR)))
             THEN [filepath |-> None,
                   error |-> S("Attempted to access file outside workspace")]
             ELSE [filepath |-> filepath, error |-> None]

InitResolve ==
    /\ handler \in {"app.py", "file_tools.py"}
    /\ pc = "call"
    /\ payload \in Filenames
    /\ base = 0
    /\ log = <<>>
    /\ recent = <<>>
    /\ raw = None
    /\ loc = None
    /\ response = None
    /\ outcome = "pending"

\* read_file_tool: the file the path names is tested and opened
ReadFileTool ==
    /\ pc = "call"
    /\ LET r == resolve_filepath(handler, payload)
       IN  /\ response' = r
           /\ log' = IF r.error # None THEN <<>>
                     ELSE <<[op |-> "read", path |-> abspath(r.filepath)]>>
    /\ pc' = "done"
    /\ outcome' = "returned"
    /\ UNCHANGED <<handler, payload, base, recent, raw, loc>>

\* write_file_tool: the directories of the path are made and the file is
\* opened for writing
WriteFileTool ==
    /\ pc = "call"
    /\ LET r == resolve_filepath(handler, payload)
       IN  /\ response' = r
           /\ log' = IF r.error # None THEN <<>>
                     ELSE <<[op |-> "write", path |-> abspath(r.filepath)]>>
    /\ pc' = "done"
    /\ outcome' = "returned"
    /\ UNCHANGED <<handler, payload, base, recent, raw, loc>>

NextResolve ==
    \/ ReadFileTool
    \/ WriteFileTool

SpecResolve == InitResolve /\ [][NextResolve]_vars

----------------------------------------------------------------------------
(* What a request did, read from the log.                                  *)

\* the effects of this request, in the order the handler had them
Trace == SubSeq(log, base + 1, Len(log))

IsDecisionCall(ev) == IsLlm(ev) /\ ev.site = "orchestrator"
IsDelegateCall(ev) == IsLlm(ev) /\ ev.site # "orchestrator"

DecisionCalls == SelectSeq(Trace, IsDecisionCall)
DelegateCalls == SelectSeq(Trace, IsDelegateCall)
ToolCalls == SelectSeq(Trace, IsTool)

\* the rows by which the handlers record an error or a fallback
ErrorActions ==
    {S("orchestration_error"), S("system_error"),
     S("orchestrator_unrecognized_action"), S("chat_api_exception")}

IsErrorEvent(ev) ==
    IsDb(ev) /\ ev.role \in {"system-info", "system"} /\ ev.action \in ErrorActions

ErrorEvents == SelectSeq(Trace, IsErrorEvent)

\* a row whose action names a failure: the above, and tool_<name>_failed,
\* <name>_failure and llm_<model>_failed
IsFailureEvent(ev) ==
    \/ IsErrorEvent(ev)
    \/ /\ IsDb(ev) /\ ev.role \in {"system-info", "system"}
       /\ IsStr(ev.action) /\ ev.action.s # <<>>
       /\ ev.action.s[Len(ev.action.s)] \in {[c |-> "failed"], [c |-> "_failed"], [c |-> "_failure"]}

FailureEvents == SelectSeq(Trace, IsFailureEvent)

Done == pc = "done"

\* the request passed validation and the orchestrating model answered
Decided == DecisionCalls # <<>> /\ DecisionCalls[1].result = "ok" /\ IsStr(raw)

\* the orchestrating model's call failed
DecisionFailed == DecisionCalls # <<>> /\ DecisionCalls[1].result = "failed"

\* the decision, when the output decodes to a JSON object
HasDecision == Decided /\ json_loads(raw.s).ok /\ IsDict(json_loads(raw.s).v)
DecisionDict == json_loads(raw.s).v.d
ActionType == Get(DecisionDict, "action_type")

\* the object that carries the fields of the chosen variant: the decision
\* itself for chat(), its "details" for api_chat_route()
HasFields ==
    HasDecision /\ (handler = "route" => IsDict(GetDefault(DecisionDict, "details", EmptyDict)))
Fields ==
    IF handler = "chat" THEN DecisionDict
    ELSE GetDefault(DecisionDict, "details", EmptyDict).d

NonJson == Decided /\ ~json_loads(raw.s).ok
NoActionType == HasDecision /\ "action_type" \notin DOMAIN DecisionDict
ToolCallWithoutName ==
    HasFields /\ ActionType = S("tool_call") /\ Get(Fields, "tool_name") = None
DelegateCallWithoutField ==
    HasFields /\ ActionType = S("llm_call")
    /\ (Get(Fields, "llm_model") = None \/ Get(Fields, "sub_prompt") = None)
DirectWithoutText ==
    HasDecision /\ ActionType = S("orchestrator_response")
    /\ "response" \notin DOMAIN DecisionDict
MissingField == ToolCallWithoutName \/ DelegateCallWithoutField \/ DirectWithoutText

Malformed == NonJson \/ NoActionType \/ MissingField

NonEmptyAnswer == IsStr(response.answer) /\ response.answer.s # <<>>

----------------------------------------------------------------------------
(* The claims.                                                             *)

\* C1: for every malformed decision output (text that is not JSON, JSON
\* without an action type, a variant without a field it requires) the
\* request ends by returning a non-empty final answer, and a fallback event
\* was recorded.
C1_MalformedDecisionFallsBack ==
    (Done /\ Malformed) =>
        /\ outcome = "returned"
        /\ NonEmptyAnswer
        /\ FailureEvents # <<>>

\* C2: no request lets an exception leave the handler: whatever the
\* orchestrating model, the tool or the delegate did, the handler returns a
\* response with a final answer, and an error it met is recorded as an event.
C2_NoExceptionLeavesHandler ==
    (Done /\ DecisionCalls # <<>>) =>
        /\ outcome = "returned"
        /\ IsStr(response.answer)
        /\ (response.agent_action \in ErrorActions => FailureEvents # <<>>)

\* C3: the final answer of a returned response is never empty, on the
\* direct-response, delegate, tool and fallback paths alike.
C3_FinalAnswerNeverEmpty ==
    (Done /\ DecisionCalls # <<>> /\ outcome = "returned") => NonEmptyAnswer

\* the names the handler dispatches to a tool
Registry == IF handler = "chat" THEN AVAILABLE_TOOLS ELSE RouteTools
ToolNameDecided == Get(Fields, "tool_name")

UnregisteredToolCall ==
    HasFields /\ ActionType = S("tool_call")
    /\ ToolNameDecided \notin {S(t) : t \in Registry}
RegisteredToolCall ==
    HasFields /\ ActionType = S("tool_call")
    /\ ToolNameDecided \in {S(t) : t \in Registry}

\* the answer of each handler for a tool name it does not know
UnknownToolAnswer(n) ==
    IF handler = "chat"
    THEN Str(L("Orchestrator requested unknown tool: ") \o Fmt(n) \o L("."))
    ELSE Str(L("Error: Unknown tool '") \o Fmt(n) \o L("' selected by orchestrator."))

\* C4: a tool_call decision whose tool name is not registered is rejected
\* before execution: no tool function is called during the request and the
\* answer is the handler's unknown-tool message.
C4_UnregisteredToolNotExecuted ==
    (pc \in {"respond", "done"} /\ UnregisteredToolCall) =>
        /\ ToolCalls = <<>>
        /\ loc.text = UnknownToolAnswer(ToolNameDecided)
        /\ (Done => outcome = "returned" /\ response.answer = loc.text)

C4_Witness ==
    Done /\ UnregisteredToolCall /\ ToolNameDecided = S("delete_file")

\* what each handler answers when the call of the orchestrating model failed
BackendFailureAnswer ==
    IF handler = "chat"
    THEN Str(L("Orchestrator response was not valid JSON. Error: <e>. Raw response: ")
             \o raw.s)
    ELSE S("An unexpected error occurred in the chat processing.")

\* C5 (as the code has it): when the call of the orchestrating model fails
\* it is not retried and no delegate model is called; chat() answers with
\* its JSON-parse error text quoting the ERROR text of call_ollama,
\* api_chat_route() with its fixed error text, and the error is recorded.
C5_BackendFailureAnsweredWithoutRetry ==
    DecisionFailed =>
        /\ Len(DecisionCalls) = 1
        /\ DelegateCalls = <<>>
        /\ ToolCalls = <<>>
        /\ (handler = "chat" =>
               raw \in {call_ollama(S("mistral"), [k |-> x, text |-> <<>>]) :
                           x \in {"request_exception", "invalid_json"}})
        /\ (Done =>
               /\ outcome = "returned"
               /\ response.answer = BackendFailureAnswer
               /\ ErrorEvents # <<>>)

C5_Witness == Done /\ DecisionFailed /\ handler = "chat"

\* C5 (as stated): when the call of the orchestrating model fails it is
\* retried exactly once, and if the retry fails too the final answer is the
\* default delegate model's response to the original user message.
C5_RetriedOnceThenDelegated ==
    (Done /\ DecisionFailed) =>
        /\ Len(DecisionCalls) = 2
        /\ (DecisionCalls[2].result = "failed" =>
               \E i \in DOMAIN DelegateCalls :
                   /\ DelegateCalls[i].model = S("mistral")
                   /\ DelegateCalls[i].prompt = loc.user_message
                   /\ response.answer = DelegateCalls[i].returned)

\* the position of the handler in its one pass
Rank ==
    CASE pc = "receive" -> 0
      [] pc = "decide" -> 1
      [] pc = "dispatch" -> 2
      [] pc = "respond" -> 3
      [] pc = "done" -> 4

\* C6 (as the code has it): a request never loops.  Every step moves the
\* handler forward; for a tool_call decision naming a registered tool the
\* orchestrating model is asked exactly once, at most one tool call is made,
\* and the handler returns a non-empty answer.
C6_ToolCallHandledInOnePass ==
    /\ [](RegisteredToolCall =>
             /\ Len(DecisionCalls) = 1
             /\ Len(ToolCalls) <= 1
             /\ (Done => outcome = "returned" /\ NonEmptyAnswer))
    /\ [][Rank' > Rank]_vars

C6_Witness == Done /\ RegisteredToolCall /\ Len(ToolCalls) = 1

\* C6 (as stated): when every decision is another tool_call the request ends
\* only once the orchestrating model has been asked again after the tool ran,
\* with the fixed MAX_ITERATIONS_EXCEEDED answer.
C6_EndsAtIterationLimit ==
    (Done /\ RegisteredToolCall /\ ToolCalls # <<>>) =>
        /\ Len(DecisionCalls) > 1
        /\ response.answer = S("MAX_ITERATIONS_EXCEEDED")

ToolRaised == \E i \in DOMAIN ToolCalls : ToolCalls[i].result = "raised"

\* the answer of each handler's catch-all except clause
ExceptionAnswer ==
    IF handler = "chat"
    THEN Str(L("An unexpected error occurred during orchestration: ") \o L("<e>"))
    ELSE S("An unexpected error occurred in the chat processing.")

\* C7 (as the code has it): when a tool function raises, the handler's
\* catch-all clause ends the request: nothing is added to the history the
\* models are shown, no model is called again, the answer is the handler's
\* fixed error text and the error is recorded.
C7_ToolExceptionEndsRequest ==
    (pc \in {"respond", "done"} /\ ToolRaised) =>
        /\ Len(DecisionCalls) = 1
        /\ DelegateCalls = <<>>
        /\ Len(ToolCalls) = 1
        /\ loc.text = ExceptionAnswer
        /\ (Done =>
               /\ outcome = "returned"
               /\ response.answer = ExceptionAnswer
               /\ response.tool_details = None
               /\ ErrorEvents # <<>>)

C7_Witness == Done /\ ToolRaised

\* C7 (as stated): when a tool function raises, the failed observation
\* becomes a turn of the history and the orchestrating model is asked again
\* with that turn in its request.
C7_FailureFedToNextDecision ==
    (Done /\ ToolRaised) =>
        \E i, j \in DOMAIN Trace :
            /\ i < j
            /\ IsTool(Trace[i]) /\ Trace[i].result = "raised"
            /\ IsDecisionCall(Trace[j])
            /\ \E k \in DOMAIN Trace[j].messages : Trace[j].messages[k].role = "tool"

RowsWithAction(a) == SelectSeq(Trace, LAMBDA ev : IsDb(ev) /\ ev.action = a)

\* C8 (as the code has it): a tool_call decision without a tool name is
\* answered as an unknown tool named None.  No delegate model and no tool is
\* called; the answer is the handler's unknown-tool message; chat() records
\* one orchestration_error event, api_chat_route() records the selection of
\* the tool None and one tool_None_failed event.
C8_MissingToolNameAnsweredAsUnknownTool ==
    (Done /\ ToolCallWithoutName) =>
        /\ outcome = "returned"
        /\ Len(DecisionCalls) = 1
        /\ DelegateCalls = <<>>
        /\ ToolCalls = <<>>
        /\ response.answer = UnknownToolAnswer(None)
        /\ (handler = "chat" =>
               /\ response.agent_action = S("orchestration_error")
               /\ Len(ErrorEvents) = 1)
        /\ (handler = "route" =>
               /\ response.agent_action = Str(L("tool_") \o L("None") \o L("_") \o L("failed"))
               /\ Len(RowsWithAction(Str(L("orchestrator_tool_") \o L("None")))) = 1
               /\ Len(FailureEvents) = 1)

C8_Witness == Done /\ ToolCallWithoutName /\ handler = "route"

\* C8 (as stated): a tool_call decision without a tool name takes the
\* fallback path: the final answer is the default delegate model's response
\* to the original user message and exactly one fallback event is recorded.
C8_MissingToolNameFallsBack ==
    (Done /\ ToolCallWithoutName) =>
        /\ \E i \in DOMAIN DelegateCalls :
               /\ DelegateCalls[i].model = S("mistral")
               /\ DelegateCalls[i].prompt = loc.user_message
               /\ response.answer = DelegateCalls[i].returned
        /\ Len(FailureEvents) = 1

\* sub occurs in s
Contains(s, sub) ==
    \E i \in 0..(Len(s) - Len(sub)) : SubSeq(s, i + 1, i + Len(sub)) = sub

ReadSucceeded ==
    ToolCalls # <<>> /\ ToolCalls[1].name = "read_file" /\ ToolCalls[1].result = "success"
ContentRead == ToolCalls[1].content.s

\* C9 (as the code has it): when read_file succeeds with content C the
\* answer is built from the tool's output at once, without another decision
\* and without a delegate call.  The answer of api_chat_route() contains C;
\* the answer of chat() is its fixed frame around the first DisplayLimit
\* characters of C, so what C holds beyond them is not shown.
C9_ReadFileAnswerShowsContent ==
    (Done /\ ReadSucceeded) =>
        /\ outcome = "returned"
        /\ Len(DecisionCalls) = 1
        /\ DelegateCalls = <<>>
        /\ (handler = "route" => Contains(response.answer.s, ContentRead))
        /\ (handler = "chat" =>
               response.answer =
                   Str(L("Content of '") \o Fmt(ToolCalls[1].args.d["filename"])
                       \o L("': [fence] ") \o Take(ContentRead, DisplayLimit)
                       \o L("... [fence] (Content truncated for display if too long)")))

C9_Witness ==
    Done /\ ReadSucceeded /\ handler = "chat" /\ Len(ContentRead) > DisplayLimit

\* C9 (as stated): when read_file succeeds with content C the result is fed
\* into a further decision and the final answer contains C, for every C.
C9_ContentFedBackAndAnswered ==
    (Done /\ ReadSucceeded) =>
        /\ Len(DecisionCalls) >= 2
        /\ Contains(response.answer.s, ContentRead)

TargetCalls == SelectSeq(Trace, LAMBDA ev : IsLlm(ev) /\ ev.site = "target")

\* C10 (as the code has it): a tool_call without a tool name runs no tool
\* and is answered as a failure; a delegate call without a model name or
\* without a sub-prompt calls no delegate with the decision's fields and is
\* answered on an error or fallback path; a direct response whose response
\* key is absent is an unrecognized action for api_chat_route(), but chat()
\* completes it with the default text "Orchestrator responded directly."
\* and records no error.
C10_DefaultOnlyForDirectResponse ==
    Done =>
        /\ (ToolCallWithoutName =>
               /\ ToolCalls = <<>>
               /\ FailureEvents # <<>>)
        /\ (DelegateCallWithoutField =>
               /\ TargetCalls = <<>>
               /\ response.agent_action \in
                      {S("orchestration_error"), S("chat_api_exception"),
                       S("llm_mistral_fallback_bad_orchestrator_llm_call")})
        /\ (DirectWithoutText /\ handler = "route" =>
               /\ ErrorEvents # <<>>
               /\ loc.action \in {S("llm_mistral_fallback_unrecognized_action"),
                                  S("chat_api_exception")})
        /\ (DirectWithoutText /\ handler = "chat" =>
               /\ outcome = "returned"
               /\ response.answer = S("Orchestrator responded directly.")
               /\ response.agent_action = S("orchestrator_direct")
               /\ FailureEvents = <<>>)

C10_Witness == Done /\ DirectWithoutText /\ handler = "chat" /\ outcome = "returned"

\* C10 (as stated): a decision that lacks a required field is never
\* completed with a default value: it is surfaced as an error, and an error
\* or fallback event is recorded.
C10_MissingFieldNeverDefaulted ==
    (Done /\ MissingField) =>
        /\ FailureEvents # <<>>
        /\ response.answer # S("Orchestrator responded directly.")

DirectWithText ==
    HasDecision /\ ActionType = S("orchestrator_response")
    /\ IsStr(Get(DecisionDict, "response"))
DirectText == Get(DecisionDict, "response")

\* the last effect of the request is the stored answer
FinalRowIs(text) ==
    /\ Trace # <<>>
    /\ IsDb(Trace[Len(Trace)])
    /\ Trace[Len(Trace)].role = (IF handler = "chat" THEN "ai" ELSE "assistant")
    /\ Trace[Len(Trace)].text = text

FallbackCalls == SelectSeq(Trace, LAMBDA ev : IsLlm(ev) /\ ev.site = "fallback")

\* C11 (as the code has it): for a direct response carrying text T, chat()
\* returns exactly T, stores it as the ai row and calls no tool and no
\* delegate model.  api_chat_route() has no direct-response variant: it
\* records an unrecognized action, asks the general model with the user's
\* message and answers with that model's reply (its fixed error text when
\* that call raises); no tool is called.
C11_DirectResponseAnswersWithItsText ==
    (Done /\ DirectWithText) =>
        /\ ToolCalls = <<>>
        /\ TargetCalls = <<>>
        /\ outcome = "returned"
        /\ FinalRowIs(response.answer)
        /\ (handler = "chat" =>
               /\ response.answer = DirectText
               /\ response.agent_action = S("orchestrator_direct")
               /\ DelegateCalls = <<>>)
        /\ (handler = "route" =>
               /\ Len(FallbackCalls) = 1
               /\ FallbackCalls[1].model = S("mistral")
               /\ FallbackCalls[1].prompt = loc.user_message
               /\ Len(RowsWithAction(S("orchestrator_unrecognized_action"))) = 1
               /\ response.answer =
                      (IF FallbackCalls[1].result = "ok" THEN FallbackCalls[1].returned
                       ELSE S("An unexpected error occurred in the chat processing.")))

C11_Witness ==
    Done /\ DirectWithText /\ handler = "chat" /\ response.answer = S("Hello!")

\* C11 (as stated): for a direct response carrying text T the final answer
\* is exactly T, the final event is recorded, and no tool and no delegate
\* model is called.
C11_DirectResponseIsFinalAnswer ==
    (Done /\ DirectWithText) =>
        /\ response.answer = DirectText
        /\ FinalRowIs(DirectText)
        /\ ToolCalls = <<>>
        /\ DelegateCalls = <<>>

\* the models the handler is configured to delegate to
ConfiguredModels == IF handler = "chat" THEN DelegateModels ELSE RouteModels
ModelDecided == Get(Fields, "llm_model")
SubPromptDecided == Get(Fields, "sub_prompt")

DelegateDecided ==
    HasFields /\ ActionType = S("llm_call")
    /\ ModelDecided \in {S(x) : x \in ConfiguredModels}
    /\ IsStr(SubPromptDecided) /\ Truthy(SubPromptDecided)

\* the row recording the selection of the delegate model
IsDelegateSelected(ev) ==
    IsDb(ev) /\ ev.action = (IF handler = "chat" THEN S("llm_selection")
                             ELSE Str(L("orchestrator_llm_") \o Fmt(ModelDecided)))

\* C12: for a delegate call naming a configured model with a sub-prompt,
\* that model is called once with the sub-prompt and the history the handler
\* read; when the call returns, what it returned is the final answer; the
\* selection row is stored before the row of the final answer.
C12_DelegateCalledWithSubPrompt ==
    (pc \in {"respond", "done"} /\ DelegateDecided) =>
        /\ ToolCalls = <<>>
        /\ Len(DelegateCalls) = 1
        /\ Len(TargetCalls) = 1
        /\ TargetCalls[1].model = ModelDecided
        /\ TargetCalls[1].prompt = SubPromptDecided
        /\ TargetCalls[1].messages =
               (IF handler = "chat"
                THEN ollama_messages(llm_system_prompt, SubPromptDecided, recent)
                ELSE recent)
        /\ (Done =>
               /\ outcome = "returned"
               /\ (TargetCalls[1].result = "ok" => response.answer = TargetCalls[1].returned)
               /\ FinalRowIs(response.answer)
               /\ \E i \in 1..(Len(Trace) - 1) : IsDelegateSelected(Trace[i]))

C12_Witness ==
    /\ Done /\ DelegateDecided /\ TargetCalls[1].result = "ok"
    /\ response.answer = Str(L("Generated answer.")) /\ Len(recent) > 1

TargetFailed == TargetCalls # <<>> /\ TargetCalls[1].result = "failed"

\* C13 (as the code has it): when the call of the selected delegate model
\* fails it is not repeated and the request returns a non-empty error text.
\* api_chat_route() answers "Sorry, there was an error contacting the
\* <model> model." and records one llm_<model>_failed row; chat() answers
\* with the ERROR text of call_ollama under the action llm_<model> and
\* records no error or fallback row.
C13_DelegateFailureAnswered ==
    (Done /\ TargetFailed) =>
        /\ outcome = "returned"
        /\ NonEmptyAnswer
        /\ Len(DelegateCalls) = 1
        /\ (handler = "route" =>
               /\ response.answer =
                      Str(L("Sorry, there was an error contacting the ")
                          \o Fmt(ModelDecided) \o L(" model."))
               /\ response.agent_action = Str(L("llm_") \o Fmt(ModelDecided) \o L("_failed"))
               /\ Len(FailureEvents) = 1
               /\ FailureEvents[1].action = response.agent_action)
        /\ (handler = "chat" =>
               /\ response.answer \in
                      {call_ollama(ModelDecided, [k |-> x, text |-> <<>>]) :
                          x \in {"request_exception", "invalid_json"}}
               /\ response.agent_action = llm_action(ModelDecided)
               /\ FailureEvents = <<>>)

C13_Witness == Done /\ TargetFailed /\ handler = "chat"

\* C13 (as stated): when the call of the selected delegate model fails the
\* final answer is an error message and a fallback event is recorded.
C13_DelegateFailureRecorded ==
    (Done /\ TargetFailed) =>
        /\ outcome = "returned"
        /\ NonEmptyAnswer
        /\ FailureEvents # <<>>

UnknownDelegateCall ==
    HasFields /\ ActionType = S("llm_call")
    /\ IsStr(ModelDecided) /\ Truthy(ModelDecided)
    /\ ModelDecided \notin {S(x) : x \in ConfiguredModels}

\* C14: a delegate call naming a model that is not configured is rejected:
\* no model is called under that name and the request is answered as an
\* error.
C14_UnknownDelegateNeverInvoked ==
    (pc \in {"respond", "done"} /\ UnknownDelegateCall) =>
        /\ \A i \in DOMAIN Trace : IsLlm(Trace[i]) => Trace[i].model # ModelDecided
        /\ (Done => FailureEvents # <<>>)



\* the registered tool a tool_call decision names
ToolDecided == CHOOSE t \in Registry : S(t) = ToolNameDecided

\* the keyword arguments chat() passes to the tool function
ToolArgsDecided == GetDefault(Fields, "tool_args", EmptyDict)

\* keywords of the decision that the tool function does not have
UnexpectedKeys ==
    IF IsDict(ToolArgsDecided)
    THEN DOMAIN ToolArgsDecided.d \ ToolParams(ToolDecided)
    ELSE {}

\* the parameters the tool requires and the decision does not carry
RequiredOmitted ==
    IF handler = "chat"
    THEN IF IsDict(ToolArgsDecided)
         THEN ToolParams(ToolDecided) \ DOMAIN ToolArgsDecided.d
         ELSE {}
    ELSE CASE ToolDecided = "read_file" -> {"filename"} \ DOMAIN Fields
           [] ToolDecided = "write_file" -> {"filename", "content"} \ DOMAIN Fields
           [] ToolDecided = "document_analysis" ->
                ({"analysis_query"} \ DOMAIN Fields)
                \cup (IF {"filename", "document_content"} \cap DOMAIN Fields = {}
                      THEN {"filename", "document_content"} ELSE {})

ArgsOmitRequired == RegisteredToolCall /\ RequiredOmitted # {}

\* the final answer carries the name
AnswerNames(p) == IsStr(response.answer) /\ Contains(response.answer.s, L(p))

\* the answer of api_chat_route() for a tool whose parameters are missing
RouteMissingAnswer ==
    CASE ToolDecided = "read_file" ->
           Str(L("Error: '") \o L("filename") \o L("' not provided for read_file tool."))
      [] ToolDecided = "write_file" ->
           Str(L("Error: '") \o L("filename") \o L("' or '") \o L("content")
               \o L("' not provided for write_file tool."))
      [] ToolDecided = "document_analysis" ->
           Str(L("Error: Missing parameters for document_analysis tool (")
               \o L("filename") \o L("/") \o L("document_content") \o L(" or ")
               \o L("analysis_query") \o L(")."))

\* C15 (as the code has it): a tool_call decision naming a registered tool
\* and omitting a parameter the tool requires never runs the tool, and no
\* model is called again.  chat() has no validation of its own: the failed
\* keyword binding is caught by the catch-all clause and the answer is the
\* unexpected-error text with the TypeError message, which names the missing
\* parameters only when the decision carries no keyword the tool does not
\* have (such a keyword is reported instead).  api_chat_route() answers with
\* the fixed missing-parameter message of the tool, which lists the tool's
\* parameters, and records a tool_<name>_failed event.
C15_MissingArgumentNotExecuted ==
    (Done /\ ArgsOmitRequired) =>
        /\ ToolCalls = <<>>
        /\ Len(DecisionCalls) = 1
        /\ DelegateCalls = <<>>
        /\ outcome = "returned"
        /\ (handler = "chat" =>
               /\ response.answer =
                      Str(L("An unexpected error occurred during orchestration: ")
                          \o bind_error(ToolDecided, ToolArgsDecided))
               /\ response.agent_action = S("orchestration_error")
               /\ (UnexpectedKeys = {} => \A q \in RequiredOmitted : AnswerNames(q))
               /\ (UnexpectedKeys # {} => \E k \in UnexpectedKeys : AnswerNames(k)))
        /\ (handler = "route" =>
               /\ response.answer = RouteMissingAnswer
               /\ response.agent_action =
                      Str(L("tool_") \o Fmt(ToolNameDecided) \o L("_") \o L("failed"))
               /\ \A q \in RequiredOmitted : AnswerNames(q))

C15_Witness ==
    /\ Done /\ ArgsOmitRequired /\ handler = "chat"
    /\ ToolDecided = "write_file"
    /\ RequiredOmitted = {"content"}
    /\ UnexpectedKeys = {}

\* C15 (as stated): a tool_call decision omitting a required parameter is
\* rejected with an error that names every missing parameter, and the tool
\* is not run.
C15_MissingParameterNamed ==
    (Done /\ ArgsOmitRequired) =>
        /\ ToolCalls = <<>>
        /\ outcome = "returned"
        /\ \A q \in RequiredOmitted : AnswerNames(q)


ToolFailed ==
    \E i \in DOMAIN ToolCalls : ToolCalls[i].result \in {"failure", "raised"}

\* C16: the tool function is called at most once per tool_call decision.  A
\* tool is only ever called for a decision naming that registered tool, and
\* after a call that failed or raised the tool is not called again, the
\* orchestrating model is not asked again and the request ends.
C16_ToolRunAtMostOnce ==
    /\ Len(ToolCalls) <= 1
    /\ (ToolCalls # <<>> =>
           /\ RegisteredToolCall
           /\ ToolCalls[1].name = ToolDecided
           /\ Len(DecisionCalls) = 1)
    /\ (Done /\ ToolFailed =>
           /\ Len(ToolCalls) = 1
           /\ DelegateCalls = <<>>
           /\ outcome = "returned")

C16_Witness ==
    Done /\ Len(ToolCalls) = 1 /\ ToolCalls[1].result = "failure" /\ handler = "route"


\* the rows stored when the handler read the history: the rows stored before
\* the request and the user message the request has just stored
StoredAtRead == SubSeq(log, 1, base + 1)

\* the rows of the conversation; chat() keeps one conversation for everybody
ConversationRows ==
    IF handler = "chat" THEN StoredAtRead
    ELSE SelectSeq(StoredAtRead, LAMBDA r : r.chat = loc.chat_id)

IsTurn(r) == r.role \in {"user", "ai", "assistant"}
AsTurn(r) ==
    [role |-> IF r.role = "user" THEN "user" ELSE "assistant", content |-> r.text]

\* the turns among rows, in the order of the rows
TurnsOf(rows) ==
    LET kept == SelectSeq(rows, IsTurn)
    IN  [i \in 1..Len(kept) |-> AsTurn(kept[i])]

\* the history the decision request carries: for chat() the messages between
\* the system prompt and the prompt, for api_chat_route() the CHAT_HISTORY
\* part of the prompt
HistorySent ==
    LET ms == DecisionCalls[1].messages
    IN  IF handler = "chat" THEN SubSeq(ms, 2, Len(ms) - 1) ELSE ms

IsToolSelected(ev) ==
    /\ IsDb(ev)
    /\ IF handler = "chat"
       THEN /\ ev.role = "system-info"
            /\ ev.action = S("tool_selection")
            /\ ev.text = Str(L("Agent selected tool: '") \o L(ToolDecided) \o L("'"))
       ELSE /\ ev.role = "system"
            /\ ev.action = Str(L("orchestrator_tool_") \o Fmt(ToolNameDecided))

\* the event that records what the tool gave: the info message stored with
\* the action of the response
IsToolResult(ev) ==
    /\ IsDb(ev)
    /\ ev.role = IF handler = "chat" THEN "system-info" ELSE "system"
    /\ ev.action = response.agent_action
    /\ ~IsToolSelected(ev)

\* the stored message that carries the final answer
IsFinalAnswer(ev) ==
    /\ IsDb(ev)
    /\ ev.role = IF handler = "chat" THEN "ai" ELSE "assistant"
    /\ ev.text = response.answer

\* C18: in the trace of a request the selection of the tool is recorded
\* before the tool function is called; when the call has returned, the
\* result of the tool is recorded after the call, and both events come
\* before the message with the final answer, which is the last of the trace.
C18_ToolEventsInOrder ==
    /\ \A k \in DOMAIN Trace :
          IsTool(Trace[k]) => \E i \in 1..(k - 1) : IsToolSelected(Trace[i])
    /\ (Done /\ ToolCalls # <<>> /\ ToolCalls[1].result # "raised") =>
          /\ outcome = "returned"
          /\ \E i, k, j \in DOMAIN Trace :
                /\ i < k /\ k < j /\ j < Len(Trace)
                /\ IsToolSelected(Trace[i])
                /\ IsTool(Trace[k])
                /\ IsToolResult(Trace[j])
                /\ IsFinalAnswer(Trace[Len(Trace)])

C18_Witness ==
    /\ Done /\ handler = "chat" /\ ToolCalls # <<>>
    /\ ToolCalls[1].result = "success"
    /\ IsFinalAnswer(Trace[Len(Trace)])


\* the messages the request has stored
StoredByRequest == SelectSeq(Trace, IsDb)

UserRows == SelectSeq(StoredByRequest, LAMBDA r : r.role = "user")
AssistantRows == SelectSeq(StoredByRequest, LAMBDA r : r.role \in {"ai", "assistant"})

\* the request passed the validation of its body and asked for a decision
Accepted == DecisionCalls # <<>>

\* C19: the messages stored before the request stay as they were, and every
\* accepted request that has ended has stored exactly one user message,
\* before every other event of its trace, and exactly one assistant message,
\* after every other event of its trace.
C19_OneUserFirstOneAssistantLast ==
    /\ Len(log) >= base
    /\ SubSeq(log, 1, base) = Seed(handler, base)
    /\ (Done /\ Accepted) =>
          /\ Len(UserRows) = 1
          /\ Trace[1] = UserRows[1]
          /\ Len(AssistantRows) = 1
          /\ Trace[Len(Trace)] = AssistantRows[1]


\* the history a call of a model carries
HistoryOf(call) ==
    IF handler = "chat" THEN SubSeq(call.messages, 2, Len(call.messages) - 1)
    ELSE call.messages

\* a stored message of the conversation of request r: one the request
\* stored, or one stored before the two requests (for api_chat_route() under
\* the request's chat id; chat() stores no conversation with a message)
OwnRow(r, row) ==
    \/ row.req = r
    \/ /\ row.req = 0
       /\ handler = "route" => row.chat = loc[r].chat_id

\* C20: when two requests of different conversations are served at the same
\* time, under every interleaving of their steps every turn of the history
\* a request sends to the orchestrating model or to a delegate model is a
\* stored message of the request's own conversation.
C20_HistoryOnlyOwnConversation ==
    \A i \in DOMAIN log :
        IsLlm(log[i]) =>
            \A k \in DOMAIN HistoryOf(log[i]) :
                \E j \in 1..(i - 1) :
                    /\ IsDb(log[j]) /\ IsTurn(log[j])
                    /\ OwnRow(log[i].req, log[j])
                    /\ AsTurn(log[j]) = HistoryOf(log[i])[k]


\* the registrations of the discovery: the assignments of line 48
Registered == DOMAIN log

\* the first registration under its name
IsFirstOfName(i) == \A j \in 1..(i - 1) : log[j].name # log[i].name

\* a later registration under the same name
RegisteredAgain(i) == \E j \in Registered : j > i /\ log[j].name = log[i].name

\* C21: a registration under a name already present fails and leaves the
\* earlier registration in place: when the discovery has returned, every
\* name is bound to the function that was registered first under it.
C21_EarlierRegistrationKept ==
    (handler = "discover" /\ pc = "done") =>
        \A i \in Registered :
            IsFirstOfName(i) => response.tool_functions[log[i].name] = log[i].func

\* a schema that is a text that does not parse, or neither a text nor a dict
MalformedSchema(schema) ==
    \/ IsStr(schema) /\ ~json_loads(schema.s).ok
    \/ ~IsStr(schema) /\ ~IsDict(schema)

\* C22: a tool whose schema is malformed fails registration: when the
\* discovery has returned its function is not in the registry.
C22_MalformedSchemaNotRegistered ==
    (handler = "discover" /\ pc = "done") =>
        \A i \in Registered :
            MalformedSchema(log[i].schema) =>
                \/ log[i].name \notin DOMAIN response.tool_functions
                \/ response.tool_functions[log[i].name] # log[i].func

\* the schema a descriptor was registered with: the dict, or the object a
\* JSON text stands for
SchemaGiven(schema) ==
    IF IsStr(schema) /\ json_loads(schema.s).ok THEN json_loads(schema.s).v ELSE schema

\* C23: round trip of the registry: for every tool that was registered, the
\* lookup by its name gives the function and the schema it was registered
\* with.
C23_LookupReturnsRegistered ==
    (handler = "discover" /\ pc = "done") =>
        \A i \in Registered :
            /\ log[i].name \in DOMAIN response.tool_functions
            /\ response.tool_functions[log[i].name] = log[i].func
            /\ response.tool_schemas[log[i].name] = SchemaGiven(log[i].schema)


C25_JsonErrorFallbackReturned ==
    (Done /\ handler = "route" /\ NonJson
          /\ FallbackCalls # <<>> /\ FallbackCalls[1].result = "ok") =>
        /\ outcome = "returned"
        /\ response.answer = FallbackCalls[1].returned
        /\ response.agent_action = S("llm_mistral_fallback_json_error")

\* an llm_call decision of api_chat_route() whose model name or sub-prompt
\* is missing or empty
DelegateCallIncomplete ==
    /\ handler = "route" /\ HasFields /\ ActionType = S("llm_call")
    /\ (~Truthy(ModelDecided) \/ ~Truthy(SubPromptDecided))

\* C26: in api_chat_route(), for an llm_call decision whose model name or
\* sub-prompt is missing or empty the general model is asked the user's
\* message, and when it answers the response carries that answer with the
\* action llm_mistral_fallback_bad_orchestrator_llm_call.
C26_IncompleteDelegateCallFallsBack ==
    (Done /\ DelegateCallIncomplete) =>
        /\ FallbackCalls # <<>>
        /\ FallbackCalls[1].model = S("mistral")
        /\ FallbackCalls[1].prompt = loc.user_message
        /\ (FallbackCalls[1].result = "ok" =>
               /\ outcome = "returned"
               /\ response.answer = FallbackCalls[1].returned
               /\ response.agent_action =
                      S("llm_mistral_fallback_bad_orchestrator_llm_call"))


\* the request carries no message: no body, a body without a message, or
\* (chat()) a message that is empty once its white space is trimmed
NoMessage ==
    \/ payload = None
    \/ /\ IsDict(payload)
       /\ \/ "message" \notin DOMAIN payload.d
          \/ payload.d["message"] = EmptyStr
          \/ /\ handler = "chat"
             /\ IsStr(payload.d["message"])
             /\ Strip(payload.d["message"].s) = <<>>

\* the fixed replies of the two handlers
IsRejection(r) ==
    IF handler = "chat"
    THEN r = Resp(200, S("Please provide a message."), S("none"), None, None, None)
    ELSE \/ r = Resp(400, None, None, None, None, S("Invalid JSON payload"))
         \/ r = Resp(400, None, None, None, None, S("Missing 'message' in request"))

\* C27: a request that carries no message is rejected with the handler's
\* fixed reply; nothing is stored and no model and no tool is called.
C27_NoMessageRejected ==
    (Done /\ NoMessage) =>
        /\ outcome = "returned"
        /\ IsRejection(response)
        /\ log = Seed(handler, base)
        /\ Trace = <<>>


\* the actions that denote the success of a tool: the four of chat(), and
\* tool_<name>_success of api_chat_route()
IsToolSuccessAction(a) ==
    IF handler = "chat"
    THEN a \in {S("file_read_success"), S("file_write_success"),
                S("internet_search_success"), S("tool_used")}
    ELSE /\ IsStr(a)
         /\ Len(a.s) >= 2
         /\ a.s[1] = [c |-> "tool_"]
         /\ a.s[Len(a.s)] = [c |-> "success"]

\* a tool of the registry was called and its result carries a true success
\* flag
RegisteredToolSucceeded ==
    /\ Len(ToolCalls) = 1
    /\ ToolCalls[1].name \in Registry
    /\ ToolCalls[1].result = "success"

\* C28: the action of a response, and of every message the request stored,
\* denotes the success of a tool only if a registered tool was called during
\* the request and returned a result whose success flag is true.
C28_SuccessActionOnlyAfterSuccess ==
    /\ (Done /\ outcome = "returned" /\ IsToolSuccessAction(response.agent_action))
           => RegisteredToolSucceeded
    /\ \A i \in DOMAIN Trace :
           (IsDb(Trace[i]) /\ IsToolSuccessAction(Trace[i].action)) =>
               \E k \in 1..(i - 1) :
                   /\ IsTool(Trace[k])
                   /\ Trace[k].result = "success"
                   /\ Trace[k].name \in Registry

C28_Witness ==
    /\ Done /\ outcome = "returned"
    /\ IsToolSuccessAction(response.agent_action)
    /\ RegisteredToolSucceeded
    /\ handler = "chat"


\* the system-info messages the request has stored
InfoRows == SelectSeq(Trace, LAMBDA ev : IsDb(ev) /\ ev.role = "system-info")

\* C29: in chat(), no system-info text is stored more than once for the
\* same request.
C29_InfoTextStoredOnce ==
    handler = "chat" =>
        \A i, j \in DOMAIN InfoRows :
            InfoRows[i].text = InfoRows[j].text => i = j


\* the path lies in the workspace directory: its components begin with
\* those of the directory
InWorkspace(parts) ==
    /\ Len(parts) >= Len(AGENT_WORKSPACE_DIR)
    /\ SubSeq(parts, 1, Len(AGENT_WORKSPACE_DIR)) = AGENT_WORKSPACE_DIR

\* C30: _resolve_filepath gives an error or a path located in the workspace
\* directory, for every filename; the file tools touch no file outside it.
C30_ResolvedPathInWorkspace ==
    pc = "done" =>
        /\ response.error = None => InWorkspace(abspath(response.filepath))
        /\ \A i \in DOMAIN log : InWorkspace(log[i].path)

====
